---- MODULE Spec2Model ----
(***************************************************************************)
(* Model of the LSP server of shopware-lsp (internal/lsp/server.go,        *)
(* internal/lsp/document.go).                                              *)
(*                                                                         *)
(* Several specifications share the module:                                *)
(*   Spec, SpecClose, SpecGate                                             *)
(*            the indexing lifecycle: the handlers of initialized,         *)
(*            shopware/forceReindex, shutdown, exit and of the workspace   *)
(*            file events, the version gate and the goroutines they spawn; *)
(*   SpecDoc, SpecDocClose, SpecSweep                                      *)
(*            the DocumentManager: didOpen / didChange / didClose, the     *)
(*            trees of the documents, the spawned publishDiagnostics,      *)
(*            shutdown, and the republication the scanner asks for;        *)
(*   SpecEvents, SpecRpc, SpecInit, SpecQuery                              *)
(*            the dispatcher, request by request: the scanner calls of the *)
(*            file events, the registered commands, unknown methods and    *)
(*            params that do not decode, initialize, and the requests that *)
(*            run through the registered providers;                        *)
(*   SpecScan, SpecLock                                                    *)
(*            the scanner file by file: the content hashes, the calls made *)
(*            to the matching indexers and the per-path lock;              *)
(*   SpecNode, SpecReg, SpecLocale                                         *)
(*            GetNodeAtPosition on the trees of the open documents,        *)
(*            Server.RegisterIndexer, and extractLocaleFromPath.           *)
(*                                                                         *)
(* The JSON-RPC connection is built with jsonrpc2.HandlerWithError, which  *)
(* runs Server.handle on the read loop: a handler is one atomic step with  *)
(* respect to the other handlers, and it interleaves with the steps of the *)
(* goroutines the handlers spawned.                                        *)
(***************************************************************************)
EXTENDS Integers, Sequences, FiniteSets, TLC

\* ------------------------------------------------------------------------
\* Bounds of the model
\* ------------------------------------------------------------------------

\* indexAll runs (goroutines of initialized / forceReindex) per behaviour
MaxRuns == 2

\* indexAll runs per behaviour where shutdown and file events are followed
MaxCloseRuns == 1

\* indexAll runs per behaviour where every version and version.txt is tried
MaxGateRuns == 1

\* shutdown requests per behaviour
MaxShutdowns == 2

\* workspace file-event requests per behaviour
MaxFileEvents == 1

\* ------------------------------------------------------------------------
\* Strings that the code inspects are sequences of characters
\* ------------------------------------------------------------------------

Dev == <<"d", "e", "v">>

WhiteSpace == {" ", "\n", "\t", "\r"}

RECURSIVE TrimLeft(_)
TrimLeft(s) == IF s # <<>> /\ Head(s) \in WhiteSpace THEN TrimLeft(Tail(s)) ELSE s

RECURSIVE TrimRight(_)
TrimRight(s) ==
    IF s # <<>> /\ s[Len(s)] \in WhiteSpace
    THEN TrimRight(SubSeq(s, 1, Len(s) - 1))
    ELSE s

\* strings.TrimSpace
TrimSpace(s) == TrimRight(TrimLeft(s))

\* the version strings the server may have been built with
Versions == { <<>>, Dev, <<"1">>, <<"2">> }

\* what version.txt may hold when the server starts
VersionFiles ==
    { [exists |-> FALSE, data |-> <<>>] } \cup
    { [exists |-> TRUE, data |-> d] : d \in { <<"1">>, <<"1", "\n">>, <<"2">>, <<>> } }

CacheDirs == {"", "/cache"}

\* ------------------------------------------------------------------------
\* The workspace, the indexers
\* ------------------------------------------------------------------------

Paths == {"a.xml", "b.php"}

Ext(p) == IF p = "a.xml" THEN ".xml" ELSE ".php"

IndexerIds == {"xml.index", "php.index"}

Extensions(i) == IF i = "xml.index" THEN {".xml"} ELSE {".php", ".xml"}

\* content hash 0 stands for "no file" on disk and for "no entry" in the store
NoHash == 0

VARIABLES
    version,        \* Server.version
    cacheDir,       \* Server.cacheDir
    versionFile,    \* version.txt in the cache directory
    connClosed,     \* the jsonrpc2 connection has been closed
    runs,           \* the goroutines running indexAll
    disk,           \* path -> content hash of the file on disk
    hashes,         \* the HashStore of the file scanner
    indexed,        \* indexer -> paths it holds facts of
    closeCalls,     \* indexer -> number of Close calls it received
    afterClose,     \* indexer -> an indexFile/removeFile call came after Close
    dmCloseCalls,   \* number of DocumentManager.Close calls
    shutdowns,      \* shutdown requests handled
    fileEvents,     \* file-event requests handled
    onLoop,         \* FileScanner calls that ran on the read loop, in a handler
    registry,       \* the providers, commands and indexers registered
    rootPath,       \* Server.rootPath
    lastRpc,        \* the last request that was followed, and what came of it
    lastScan,       \* the last file the scanner handled, and the calls it made
    dispatched,     \* path -> content hash it was last parsed and dispatched with
    inFlight,       \* the scanner operations that are inside indexer calls
    nodeAt,         \* the last GetNodeAtPosition call and what it returned
    indexers,       \* Server.indexers: ID -> the indexer registered under it
    scannerIndexers, \* the indexers added to the file scanner, in order
    locale,         \* the last extractLocaleFromPath call and what it returned
    docs,           \* DocumentManager.documents: URI -> document
    trees,          \* every tree a parser returned, in order of creation
    pubs,           \* the goroutines running publishDiagnostics
    published,      \* the textDocument/publishDiagnostics notifications sent
    lastPayload,    \* URI -> final text of its last didOpen/didChange
    script,         \* how far the requests follow the open-edit scenario
    sweeps          \* the goroutines running PublishDiagnostics(ctx, nil)

srvVars ==
    << version, cacheDir, versionFile, connClosed, runs, disk, hashes,
       indexed, closeCalls, afterClose, dmCloseCalls, shutdowns, fileEvents,
       onLoop, registry, rootPath, lastRpc, lastScan, dispatched, inFlight,
       nodeAt, indexers, scannerIndexers, locale >>

docVars == << docs, trees, pubs, published, lastPayload, script, sweeps >>

vars == << srvVars, docVars >>

\* ------------------------------------------------------------------------
\* The version gate
\* ------------------------------------------------------------------------

\* shouldForceReindex returns (false, nil) at once: no cache directory, an
\* empty version or the version "dev"
GateSkippedNoDev(v, cd) == cd = "" \/ v = <<>>

GateSkipped(v, cd) == cd = "" \/ v = <<>> \/ v = Dev

\* Server.shouldForceReindex: the flag it returns, whether it returns an
\* error, and version.txt as it leaves it.  readErr: os.ReadFile fails with
\* an error other than "not exist"; writeErr: os.WriteFile fails.
ShouldForceReindexNoCreate(v, cd, vf, readErr, writeErr) ==
    IF GateSkipped(v, cd)
    THEN [force |-> FALSE, err |-> FALSE, file |-> vf]
    ELSE IF readErr
    THEN [force |-> FALSE, err |-> TRUE, file |-> vf]
    ELSE LET force == vf.exists /\ TrimSpace(vf.data) # v
         IN IF writeErr
            THEN [force |-> force, err |-> TRUE, file |-> vf]
            ELSE [force |-> force, err |-> FALSE,
                  file |-> [exists |-> TRUE, data |-> v]]

ShouldForceReindex(v, cd, vf, readErr, writeErr) ==
    IF GateSkipped(v, cd)
    THEN [force |-> FALSE, err |-> FALSE, file |-> vf]
    ELSE IF readErr
    THEN [force |-> FALSE, err |-> TRUE, file |-> vf]
    ELSE LET force == IF ~vf.exists THEN TRUE ELSE TrimSpace(vf.data) # v
         IN IF writeErr
            THEN [force |-> force, err |-> TRUE, file |-> vf]
            ELSE [force |-> force, err |-> FALSE,
                  file |-> [exists |-> TRUE, data |-> v]]

\* ------------------------------------------------------------------------
\* The file scanner (internal/indexer.FileScanner), as section 4.6 of the
\* specification describes it
\* ------------------------------------------------------------------------

\* A path handed to the scanner is a sequence of tokens: the file name,
\* preceded by the "file://" prefixes that were left on it.
FilePrefix == "file://"

NameOf(sp) == sp[Len(sp)]

\* the indexers whose extensions contain the extension of the file
Matching(sp) == { i \in IndexerIds : Ext(NameOf(sp)) \in Extensions(i) }

OnDisk(d, sp) == Len(sp) = 1 /\ d[sp[1]] # NoHash

\* the scanner's view of the world: the HashStore and the indexers
ScanState(h, ix, ac) == [hashes |-> h, indexed |-> ix, afterClose |-> ac]

\* indexFile(path) on every matching indexer, then HashStore.set
DispatchIndex(st, d, cc, sp) ==
    [ hashes     |-> [st.hashes EXCEPT ![sp[1]] = d[sp[1]]],
      indexed    |-> [i \in IndexerIds |->
                        IF i \in Matching(sp) THEN st.indexed[i] \cup {sp[1]}
                        ELSE st.indexed[i]],
      afterClose |-> [i \in IndexerIds |->
                        st.afterClose[i] \/ (i \in Matching(sp) /\ cc[i] > 0)] ]

\* removeFile(path) on every matching indexer, then HashStore.delete
DispatchRemove(st, cc, sp) ==
    [ hashes     |-> IF Len(sp) = 1 THEN [st.hashes EXCEPT ![sp[1]] = NoHash]
                     ELSE st.hashes,
      indexed    |-> [i \in IndexerIds |->
                        IF i \in Matching(sp) /\ Len(sp) = 1
                        THEN st.indexed[i] \ {sp[1]}
                        ELSE st.indexed[i]],
      afterClose |-> [i \in IndexerIds |->
                        st.afterClose[i] \/ (i \in Matching(sp) /\ cc[i] > 0)] ]

\* FileScanner.IndexFiles(paths): the files that can be read are indexed
RECURSIVE IndexFiles(_, _, _, _)
IndexFiles(st, d, cc, paths) ==
    IF paths = <<>> THEN st
    ELSE IndexFiles(IF OnDisk(d, Head(paths))
                    THEN DispatchIndex(st, d, cc, Head(paths))
                    ELSE st,
                    d, cc, Tail(paths))

\* FileScanner.RemoveFiles(paths)
RECURSIVE RemoveFiles(_, _, _)
RemoveFiles(st, cc, paths) ==
    IF paths = <<>> THEN st
    ELSE RemoveFiles(DispatchRemove(st, cc, Head(paths)), cc, Tail(paths))

\* one file of FileScanner.IndexAll: unchanged files are skipped, new and
\* changed files are indexed, files missing from disk are removed
ScanOne(st, d, cc, p) ==
    IF d[p] = NoHash
    THEN IF st.hashes[p] # NoHash THEN DispatchRemove(st, cc, <<p>>) ELSE st
    ELSE IF st.hashes[p] = d[p] THEN st
    ELSE DispatchIndex(st, d, cc, <<p>>)

\* ------------------------------------------------------------------------
\* The registrations and the dispatcher (Server.Start, Server.handle)
\* ------------------------------------------------------------------------

\* Server.Start: commandMap[command] = fn for every command of every command
\* provider, in the order of commandProviders; a command stands for the
\* function of the provider that registered it last.  cps is the sequence
\* of the sets of command names of the providers.
RegisterCommands(cps) ==
    [ m \in UNION { cps[k] : k \in DOMAIN cps } |->
        CHOOSE k \in DOMAIN cps :
            /\ m \in cps[k]
            /\ \A j \in DOMAIN cps : m \in cps[j] => j <= k ]

\* a server with no provider and no command, and every indexer registered
NoRegistry ==
    [ commands    |-> RegisterCommands(<<>>),
      completion  |-> <<>>,
      definition  |-> <<>>,
      codeAction  |-> <<>>,
      diagnostics |-> <<>>,
      indexers    |-> IndexerIds ]

\* what Server.handle returns: (nil, nil), (result, nil) or (nil, err); a
\* nil pointer dereference or a failed type assertion panics
NilRet == [kind |-> "nil", code |-> "", value |-> <<>>]

ResultRet(v) == [kind |-> "result", code |-> "", value |-> v]

ErrorRet(code) == [kind |-> "error", code |-> code, value |-> <<>>]

PanicRet == [kind |-> "panic", code |-> "", value |-> <<>>]

\* the codes of the errors handle builds; an error of json.Unmarshal that is
\* returned as it is carries no code
CodeParseError == "ParseError"

CodeMethodNotFound == "MethodNotFound"

NoCode == ""

\* a request as handle sees it: req.Method, req.Notif, req.ID (the zero ID
\* on a notification), req.Params; by is the branch of handle that took it
Rpc(method, notif, id, params, by, ret, calls) ==
    [ method |-> method, notif |-> notif, id |-> id, params |-> params,
      by |-> by, ret |-> ret, calls |-> calls ]

NoRpc == Rpc("", TRUE, 0, <<>>, "", NilRet, <<>>)

\* the switch of handle is reached by a method that is no registered command
BuiltInAlways(m) == TRUE

BuiltIn(m) == m \notin DOMAIN registry.commands

\* a call of the handler on the file scanner; err: the call returned an
\* error, which the handler logs
ScanCall(op, paths, err) == [op |-> op, paths |-> paths, err |-> err]

\* ------------------------------------------------------------------------
\* The goroutines that run Server.indexAll
\* ------------------------------------------------------------------------

NewRun(kind, pc, force) ==
    [ kind        |-> kind,       \* the request that spawned the goroutine
      pc          |-> pc,
      force       |-> force,      \* the forceReindex argument of indexAll
      gateCond    |-> FALSE,      \* version.txt was absent or differed
      gateErr     |-> FALSE,      \* shouldForceReindex returned an error
      clearCalled |-> FALSE,      \* FileScanner.ClearHashes was called
      scanStarted |-> FALSE,      \* FileScanner.IndexAll was called
      started     |-> 0,          \* shopware/indexingStarted sent
      completed   |-> 0,          \* shopware/indexingCompleted sent
      todo        |-> {} ]        \* files the scan has still to visit

RunIds == 1..Len(runs)

\* what the scanner did with the file it handled last: whether the file
\* was parsed, and the indexer calls made for it
NoScan == [path |-> "", parsed |-> FALSE, calls |-> {}]

scanVars == << disk, hashes, indexed, afterClose >>

closeVars == << closeCalls, dmCloseCalls, shutdowns >>

gateVars == << version, cacheDir, versionFile >>

eventVars == << fileEvents, onLoop >>

rpcVars == << registry, rootPath, lastRpc >>

regVars == << indexers, scannerIndexers, locale >>

obsVars == << lastScan, dispatched, inFlight, nodeAt, regVars >>


\* case "initialized": go func() { shouldForceReindex; indexAll }
HandleInitialized(maxRuns) ==
    /\ ~connClosed
    /\ BuiltIn("initialized")
    /\ Len(runs) < maxRuns
    /\ runs' = Append(runs, NewRun("initialized", "gate", FALSE))
    /\ UNCHANGED << obsVars, gateVars, connClosed, scanVars, closeVars, eventVars,
                    docVars, rpcVars >>

\* case "shopware/forceReindex": go func() { indexAll(ctx, true) }
HandleForceReindex(maxRuns) ==
    /\ ~connClosed
    /\ BuiltIn("shopware/forceReindex")
    /\ Len(runs) < maxRuns
    /\ runs' = Append(runs, NewRun("forceReindex", "notifyStart", TRUE))
    /\ UNCHANGED << obsVars, gateVars, connClosed, scanVars, closeVars, eventVars,
                    docVars, rpcVars >>

\* the goroutine of initialized calls shouldForceReindex
Gate(r) ==
    /\ runs[r].pc = "gate"
    /\ \E readErr \in BOOLEAN, writeErr \in BOOLEAN :
         LET g == ShouldForceReindex(version, cacheDir, versionFile, readErr, writeErr)
         IN /\ versionFile' = g.file
            /\ runs' = [runs EXCEPT ![r].pc = "notifyStart",
                                    ![r].force = g.force,
                                    ![r].gateErr = g.err,
                                    ![r].gateCond =
                                        /\ cacheDir # ""
                                        /\ version \notin {<<>>, Dev}
                                        /\ ~readErr
                                        /\ \/ ~versionFile.exists
                                           \/ TrimSpace(versionFile.data) # version]
    /\ UNCHANGED << obsVars, version, cacheDir, connClosed, scanVars, closeVars, eventVars,
                    docVars, rpcVars >>

\* indexAll: Notify(shopware/indexingStarted); an error ends indexAll
NotifyStarted(r) ==
    /\ runs[r].pc = "notifyStart"
    /\ runs' = IF connClosed THEN [runs EXCEPT ![r].pc = "done"]
               ELSE [runs EXCEPT ![r].pc = "clear",
                                 ![r].started = runs[r].started + 1]
    /\ UNCHANGED << obsVars, gateVars, connClosed, scanVars, closeVars, eventVars,
                    docVars, rpcVars >>

\* indexAll: if forceReindex { ClearHashes() }; an error ends indexAll
ClearHashes(r) ==
    /\ runs[r].pc = "clear"
    /\ \/ /\ ~runs[r].force
          /\ runs' = [runs EXCEPT ![r].pc = "scan"]
          /\ UNCHANGED hashes
       \/ /\ runs[r].force
          /\ runs' = [runs EXCEPT ![r].pc = "scan", ![r].clearCalled = TRUE]
          /\ hashes' = [p \in Paths |-> NoHash]
       \/ /\ runs[r].force
          /\ runs' = [runs EXCEPT ![r].pc = "done", ![r].clearCalled = TRUE]
          /\ UNCHANGED hashes
    /\ UNCHANGED << obsVars, gateVars, connClosed, disk, indexed, afterClose,
                    closeVars, eventVars,
                    docVars, rpcVars >>

\* indexAll: FileScanner.IndexAll starts and collects the files to visit
ScanStart(r) ==
    /\ runs[r].pc = "scan"
    /\ runs' = [runs EXCEPT ![r].pc = "scanning",
                            ![r].scanStarted = TRUE,
                            ![r].todo = { p \in Paths :
                                            disk[p] # NoHash \/ hashes[p] # NoHash }]
    /\ UNCHANGED << obsVars, gateVars, connClosed, scanVars, closeVars, eventVars,
                    docVars, rpcVars >>

\* a worker of the scan visits one file
ScanFile(r, p) ==
    /\ runs[r].pc = "scanning"
    /\ p \in runs[r].todo
    /\ LET st == ScanOne(ScanState(hashes, indexed, afterClose), disk, closeCalls, p)
       IN /\ hashes' = st.hashes
          /\ indexed' = st.indexed
          /\ afterClose' = st.afterClose
    /\ runs' = [runs EXCEPT ![r].todo = runs[r].todo \ {p}]
    /\ UNCHANGED << obsVars, gateVars, connClosed, disk, closeVars, eventVars,
                    docVars, rpcVars >>

\* FileScanner.IndexAll returns nil
ScanEnd(r) ==
    /\ runs[r].pc = "scanning"
    /\ runs[r].todo = {}
    /\ runs' = [runs EXCEPT ![r].pc = "notifyDone"]
    /\ UNCHANGED << obsVars, gateVars, connClosed, scanVars, closeVars, eventVars,
                    docVars, rpcVars >>

\* FileScanner.IndexAll returns an error, which ends indexAll
ScanFail(r) ==
    /\ runs[r].pc = "scanning"
    /\ runs' = [runs EXCEPT ![r].pc = "done", ![r].todo = {}]
    /\ UNCHANGED << obsVars, gateVars, connClosed, scanVars, closeVars, eventVars,
                    docVars, rpcVars >>

\* indexAll: Notify(shopware/indexingCompleted)
NotifyCompleted(r) ==
    /\ runs[r].pc = "notifyDone"
    /\ runs' = IF ~connClosed
               THEN [runs EXCEPT ![r].pc = "done",
                                 ![r].completed = runs[r].completed + 1]
               ELSE [runs EXCEPT ![r].pc = "done"]
    /\ UNCHANGED << obsVars, gateVars, connClosed, scanVars, closeVars, eventVars,
                    docVars, rpcVars >>


\* ------------------------------------------------------------------------
\* The scanner file by file: parse failures, indexer errors, files that
\* change on disk, and the indexer calls in progress (section 4.6, 5)
\* ------------------------------------------------------------------------

\* contents 1 and 2 parse; contents 3 make the parser fail
Parses(h) == h < 3

\* the indexers whose indexFile can return an error
Flaky == {"php.index"}

\* one file of FileScanner.IndexAll that keeps no hash of a file one of
\* whose indexers failed
VisitFileDropsHash(st, d, cc, p, failing) ==
    IF d[p] # NoHash /\ st.hashes[p] # d[p] /\ Parses(d[p])
    THEN [ st     |-> [ hashes     |-> IF failing = {}
                                       THEN DispatchIndex(st, d, cc, <<p>>).hashes
                                       ELSE st.hashes,
                        indexed    |-> [i \in IndexerIds |->
                                          IF i \in failing THEN st.indexed[i]
                                          ELSE DispatchIndex(st, d, cc, <<p>>).indexed[i]],
                        afterClose |-> DispatchIndex(st, d, cc, <<p>>).afterClose ],
           parsed |-> TRUE,
           calls  |-> { [op |-> "indexFile", indexer |-> i, err |-> i \in failing] :
                        i \in Matching(<<p>>) } ]
    ELSE [ st     |-> IF d[p] = NoHash THEN ScanOne(st, d, cc, p) ELSE st,
           parsed |-> FALSE,
           calls  |-> IF d[p] = NoHash /\ st.hashes[p] # NoHash
                      THEN { [op |-> "removeFile", indexer |-> i, err |-> FALSE] :
                             i \in Matching(<<p>>) }
                      ELSE {} ]

\* one file of FileScanner.IndexAll that indexes the files it finds
\* unchanged as well
VisitFileNoSkip(st, d, cc, p, failing) ==
    IF d[p] # NoHash /\ Parses(d[p])
    THEN [ st     |-> [ hashes     |-> DispatchIndex(st, d, cc, <<p>>).hashes,
                        indexed    |-> [i \in IndexerIds |->
                                          IF i \in failing THEN st.indexed[i]
                                          ELSE DispatchIndex(st, d, cc, <<p>>).indexed[i]],
                        afterClose |-> DispatchIndex(st, d, cc, <<p>>).afterClose ],
           parsed |-> TRUE,
           calls  |-> { [op |-> "indexFile", indexer |-> i, err |-> i \in failing] :
                        i \in Matching(<<p>>) } ]
    ELSE [ st     |-> IF d[p] = NoHash THEN ScanOne(st, d, cc, p) ELSE st,
           parsed |-> FALSE,
           calls  |-> IF d[p] = NoHash /\ st.hashes[p] # NoHash
                      THEN { [op |-> "removeFile", indexer |-> i, err |-> FALSE] :
                             i \in Matching(<<p>>) }
                      ELSE {} ]

\* one file of FileScanner.IndexAll, with the failure semantics: a file
\* missing from disk is removed (ScanOne), an unchanged file is skipped, a
\* file that does not parse reaches no indexer and keeps its old entry, and
\* a parsed file goes to every matching indexer, the indexers in failing
\* return an error and the hash is recorded all the same
VisitFile(st, d, cc, p, failing) ==
    IF d[p] # NoHash /\ st.hashes[p] # d[p] /\ Parses(d[p])
    THEN [ st     |-> [ hashes     |-> DispatchIndex(st, d, cc, <<p>>).hashes,
                        indexed    |-> [i \in IndexerIds |->
                                          IF i \in failing THEN st.indexed[i]
                                          ELSE DispatchIndex(st, d, cc, <<p>>).indexed[i]],
                        afterClose |-> DispatchIndex(st, d, cc, <<p>>).afterClose ],
           parsed |-> TRUE,
           calls  |-> { [op |-> "indexFile", indexer |-> i, err |-> i \in failing] :
                        i \in Matching(<<p>>) } ]
    ELSE [ st     |-> IF d[p] = NoHash THEN ScanOne(st, d, cc, p) ELSE st,
           parsed |-> FALSE,
           calls  |-> IF d[p] = NoHash /\ st.hashes[p] # NoHash
                      THEN { [op |-> "removeFile", indexer |-> i, err |-> FALSE] :
                             i \in Matching(<<p>>) }
                      ELSE {} ]

\* the content hash path p was last parsed and dispatched with
Dispatched(v, d, p) ==
    IF v.parsed THEN [dispatched EXCEPT ![p] = d[p]]
    ELSE IF v.calls # {} THEN [dispatched EXCEPT ![p] = NoHash]
    ELSE dispatched

\* a scanner that lets the indexer calls of one path overlap
SerialisedNever(p) == TRUE

\* the scanner serialises the indexer calls of one path: an operation
\* enters the calls for p when no other operation is inside them
Serialised(p) == \A c \in inFlight : c[2] # p

\* a file of the workspace is edited (2), broken (3) or deleted (NoHash)
\* between two indexAll calls
DiskChange(p, h) ==
    /\ disk[p] = 1
    /\ inFlight = {}
    /\ \A r \in RunIds : runs[r].pc = "done"
    /\ disk' = [disk EXCEPT ![p] = h]
    /\ UNCHANGED << obsVars, gateVars, connClosed, runs, hashes, indexed,
                    afterClose, closeVars, eventVars, docVars, rpcVars >>

\* a worker of the scan of run r takes file p and enters its indexer calls
VisitBegin(r, p) ==
    /\ runs[r].pc = "scanning"
    /\ p \in runs[r].todo
    /\ <<r, p>> \notin inFlight
    /\ Serialised(p)
    /\ inFlight' = inFlight \cup {<<r, p>>}
    /\ UNCHANGED << lastScan, dispatched, nodeAt, regVars, gateVars, connClosed, runs, scanVars,
                    closeVars, eventVars, docVars, rpcVars >>

\* the worker is through with file p
VisitEnd(r, p) ==
    /\ <<r, p>> \in inFlight
    /\ \E failing \in SUBSET (Matching(<<p>>) \cap Flaky) :
         LET v == VisitFile(ScanState(hashes, indexed, afterClose), disk,
                            closeCalls, p, failing)
         IN /\ hashes' = v.st.hashes
            /\ indexed' = v.st.indexed
            /\ afterClose' = v.st.afterClose
            /\ lastScan' = [path |-> p, parsed |-> v.parsed, calls |-> v.calls]
            /\ dispatched' = Dispatched(v, disk, p)
    /\ inFlight' = inFlight \ {<<r, p>>}
    /\ runs' = [runs EXCEPT ![r].todo = runs[r].todo \ {p}]
    /\ UNCHANGED << nodeAt, regVars, gateVars, connClosed, disk, closeVars, eventVars,
                    docVars, rpcVars >>

\* case "workspace/didCreateFiles" with one file: the handler calls
\* FileScanner.IndexFiles on the read loop and enters the indexer calls
FileEventBegin(p) ==
    /\ ~connClosed
    /\ BuiltIn("workspace/didCreateFiles")
    /\ fileEvents < MaxFileEvents
    /\ \A c \in inFlight : c[1] # 0
    /\ Serialised(p)
    /\ fileEvents' = fileEvents + 1
    /\ onLoop' = onLoop + 1
    /\ inFlight' = inFlight \cup {<<0, p>>}
    /\ UNCHANGED << lastScan, dispatched, nodeAt, regVars, gateVars, connClosed, runs, scanVars,
                    closeVars, docVars, rpcVars >>

\* FileScanner.IndexFiles returns to the handler: a file that can be read
\* is indexed whatever the HashStore holds of it
FileEventEnd(p) ==
    /\ <<0, p>> \in inFlight
    /\ \E failing \in SUBSET (Matching(<<p>>) \cap Flaky) :
         LET st == ScanState([hashes EXCEPT ![p] = NoHash], indexed, afterClose)
             v  == IF disk[p] = NoHash
                   THEN [st |-> ScanState(hashes, indexed, afterClose),
                         parsed |-> FALSE, calls |-> {}]
                   ELSE VisitFile(st, disk, closeCalls, p, failing)
         IN /\ hashes' = IF v.parsed THEN v.st.hashes ELSE hashes
            /\ indexed' = v.st.indexed
            /\ afterClose' = v.st.afterClose
            /\ lastScan' = [path |-> p, parsed |-> v.parsed, calls |-> v.calls]
            /\ dispatched' = Dispatched(v, disk, p)
    /\ inFlight' = inFlight \ {<<0, p>>}
    /\ UNCHANGED << nodeAt, regVars, gateVars, connClosed, runs, disk, closeVars, eventVars,
                    docVars, rpcVars >>

\* ------------------------------------------------------------------------
\* The DocumentManager (internal/lsp/document.go)
\* ------------------------------------------------------------------------

\* didOpen and didChange requests per behaviour
MaxEdits == 2

\* entries of contentChanges in one didChange
MaxChanges == 2

DocUris == {"c.twig", "d.txt"}

\* the keys that DocumentManager.documents may have: with a .php document
AllUris == DocUris \cup {"e.php"}

Texts == {"x", "y"}

DocVersions == {1, 2}

NoText == ""

NoTree == 0

\* strings.ToLower(filepath.Ext(uri)) is a key of DocumentManager.parsers
HasParser(u) == u \in {"c.twig", "e.php"}

NoDoc == [open |-> FALSE, text |-> NoText, version |-> 0, tree |-> NoTree]

\* parser.Parse(text): a new tree, not yet closed
NewTree(u, text) == [uri |-> u, text |-> text, closes |-> 0]

DocState(d, t) == [docs |-> d, trees |-> t]

\* DocumentManager.OpenDocument: a new TextDocument replaces the entry
OpenDocument(st, u, text, ver) ==
    IF HasParser(u)
    THEN [ docs  |-> [st.docs EXCEPT ![u] =
                        [open |-> TRUE, text |-> text, version |-> ver,
                         tree |-> Len(st.trees) + 1]],
           trees |-> Append(st.trees, NewTree(u, text)) ]
    ELSE [ docs  |-> [st.docs EXCEPT ![u] =
                        [open |-> TRUE, text |-> text, version |-> ver,
                         tree |-> NoTree]],
           trees |-> st.trees ]

\* DocumentManager.UpdateDocument: text, version and tree of the entry are
\* assigned; a URI that is not in the map gets a new TextDocument
UpdateDocumentExistingOnly(st, u, text, ver) ==
    IF st.docs[u].open
    THEN IF HasParser(u)
         THEN [ docs  |-> [st.docs EXCEPT ![u].text = text, ![u].version = ver,
                                          ![u].tree = Len(st.trees) + 1],
                trees |-> Append(st.trees, NewTree(u, text)) ]
         ELSE [ docs  |-> [st.docs EXCEPT ![u].text = text, ![u].version = ver],
                trees |-> st.trees ]
    ELSE st

UpdateDocument(st, u, text, ver) ==
    IF st.docs[u].open
    THEN IF HasParser(u)
         THEN [ docs  |-> [st.docs EXCEPT ![u].text = text, ![u].version = ver,
                                          ![u].tree = Len(st.trees) + 1],
                trees |-> Append(st.trees, NewTree(u, text)) ]
         ELSE [ docs  |-> [st.docs EXCEPT ![u].text = text, ![u].version = ver],
                trees |-> st.trees ]
    ELSE IF HasParser(u)
         THEN [ docs  |-> [st.docs EXCEPT ![u] =
                             [open |-> TRUE, text |-> text, version |-> ver,
                              tree |-> Len(st.trees) + 1]],
                trees |-> Append(st.trees, NewTree(u, text)) ]
         ELSE [ docs  |-> [st.docs EXCEPT ![u] =
                             [open |-> TRUE, text |-> text, version |-> ver,
                              tree |-> NoTree]],
                trees |-> st.trees ]

\* DocumentManager.CloseDocument: the tree of the entry is closed, the entry
\* deleted
CloseDocument(st, u) ==
    [ docs  |-> [st.docs EXCEPT ![u] = NoDoc],
      trees |-> IF st.docs[u].open /\ st.docs[u].tree # NoTree
                THEN [st.trees EXCEPT ![st.docs[u].tree].closes = @ + 1]
                ELSE st.trees ]

\* DocumentManager.GetDocumentText
GetDocumentText(d, u) == [ok |-> d[u].open, text |-> d[u].text]

\* DocumentManager.GetRootNode: the root of the tree, NoTree for nil
GetRootNode(d, u) == IF ~d[u].open \/ d[u].tree = NoTree THEN NoTree ELSE d[u].tree

\* DocumentManager.Close: the tree of every document is closed and set to
\* nil (then the parsers are closed)
DocManagerClose(st) ==
    [ docs  |-> [u \in AllUris |-> [st.docs[u] EXCEPT !.tree = NoTree]],
      trees |-> [k \in DOMAIN st.trees |->
                   IF \E u \in DocUris : st.docs[u].open /\ st.docs[u].tree = k
                   THEN [st.trees[k] EXCEPT !.closes = @ + 1]
                   ELSE st.trees[k]] ]

\* go s.publishDiagnostics(ctx, uri, version)
NewPub(u, ver) ==
    [ uri     |-> u,
      version |-> ver,        \* the version argument
      pc      |-> "text",
      textVer |-> 0,          \* version of the document when its text was read
      rootVer |-> 0,          \* version of the document when its root was read
      node    |-> NoTree,     \* the root node, by its tree
      freed   |-> FALSE ]     \* the providers read the node of a closed tree

PubIds == 1..Len(pubs)

\* go s.PublishDiagnostics(context.Background(), nil)
NewSweep ==
    [ pc   |-> "enum",
      seen |-> <<>>,          \* the docAnalyse entries collected so far
      race |-> "none" ]       \* what was written while the range was running

SweepIds == 1..Len(sweeps)

\* the range over DocumentManager.documents has visited an entry and has not
\* ended
Ranging(w) == sweeps[w].pc = "enum" /\ Len(sweeps[w].seen) > 0

\* a write under DocumentManager.mu meets the ranges in progress, which hold
\* no lock: kind is "map" for an insert or a delete on the map, "field" for
\* an assignment to the fields of an entry
Written(kind) ==
    [w \in SweepIds |->
        IF Ranging(w) /\ sweeps[w].race # "map"
        THEN [sweeps[w] EXCEPT !.race = kind]
        ELSE sweeps[w]]

\* the open-edit scenario: didOpen(c.twig, version 1) as the first request,
\* then didChange(c.twig, one content change, version 2), nothing else
ScriptAfterOpen(u, ver) ==
    IF script = "start" /\ u = "c.twig" /\ ver = 1 THEN "opened" ELSE "off"

ScriptAfterChange(u, n, ver) ==
    IF script = "opened" /\ u = "c.twig" /\ ver = 2 /\ n = 1 THEN "edited" ELSE "off"

\* case "textDocument/didOpen"
HandleDidOpen(u, text, ver) ==
    /\ ~connClosed
    /\ BuiltIn("textDocument/didOpen")
    /\ Len(pubs) < MaxEdits
    /\ LET st == OpenDocument(DocState(docs, trees), u, text, ver)
       IN /\ docs' = st.docs
          /\ trees' = st.trees
    /\ pubs' = Append(pubs, NewPub(u, ver))
    /\ lastPayload' = [lastPayload EXCEPT ![u] = text]
    /\ script' = ScriptAfterOpen(u, ver)
    /\ sweeps' = Written("map")
    /\ UNCHANGED published
    /\ UNCHANGED srvVars

\* case "textDocument/didChange": with at least one content change, the
\* document is updated and its diagnostics are published
HandleDidChange(u, changes, ver) ==
    /\ ~connClosed
    /\ BuiltIn("textDocument/didChange")
    /\ Len(pubs) < MaxEdits
    /\ IF Len(changes) > 0
       THEN /\ LET st == UpdateDocument(DocState(docs, trees), u, changes[1], ver)
               IN /\ docs' = st.docs
                  /\ trees' = st.trees
            /\ pubs' = Append(pubs, NewPub(u, ver))
            /\ lastPayload' = [lastPayload EXCEPT ![u] = changes[Len(changes)]]
       ELSE UNCHANGED << docs, trees, pubs, lastPayload >>
    /\ script' = ScriptAfterChange(u, Len(changes), ver)
    /\ sweeps' = IF Len(changes) = 0 THEN sweeps
                  ELSE IF docs[u].open THEN Written("field") ELSE Written("map")
    /\ UNCHANGED published
    /\ UNCHANGED srvVars

\* case "textDocument/didClose"
HandleDidClose(u) ==
    /\ ~connClosed
    /\ BuiltIn("textDocument/didClose")
    /\ LET st == CloseDocument(DocState(docs, trees), u)
       IN /\ docs' = st.docs
          /\ trees' = st.trees
    /\ lastPayload' = [lastPayload EXCEPT ![u] = NoText]
    /\ script' = "off"
    /\ sweeps' = Written("map")
    /\ UNCHANGED << pubs, published >>
    /\ UNCHANGED srvVars

\* publishDiagnostics: content, ok := GetDocumentText(uri)
PubReadText(g) ==
    /\ pubs[g].pc = "text"
    /\ LET r == GetDocumentText(docs, pubs[g].uri)
       IN pubs' = IF r.ok
                  THEN [pubs EXCEPT ![g].pc = "root",
                                    ![g].textVer = docs[pubs[g].uri].version]
                  ELSE [pubs EXCEPT ![g].pc = "done"]
    /\ UNCHANGED << docs, trees, published, lastPayload, script, sweeps >>
    /\ UNCHANGED srvVars

\* publishDiagnostics: node := GetRootNode(uri)
PubReadRoot(g) ==
    /\ pubs[g].pc = "root"
    /\ LET n == GetRootNode(docs, pubs[g].uri)
       IN pubs' = IF n # NoTree
                  THEN [pubs EXCEPT ![g].pc = "notify", ![g].node = n,
                                    ![g].rootVer = docs[pubs[g].uri].version]
                  ELSE [pubs EXCEPT ![g].pc = "done"]
    /\ UNCHANGED << docs, trees, published, lastPayload, script, sweeps >>
    /\ UNCHANGED srvVars

\* publishDiagnostics: the providers run on the node and the content, then
\* conn.Notify, whose error on a closed connection is logged
PubNotify(g) ==
    /\ pubs[g].pc = "notify"
    /\ pubs' = [pubs EXCEPT ![g].pc = "done",
                            ![g].freed = trees[pubs[g].node].closes > 0]
    /\ published' = IF connClosed THEN published
                    ELSE Append(published,
                                [ uri     |-> pubs[g].uri,
                                  version |-> pubs[g].version,
                                  textVer |-> pubs[g].textVer,
                                  rootVer |-> pubs[g].rootVer ])
    /\ UNCHANGED << docs, trees, lastPayload, script, sweeps >>
    /\ UNCHANGED srvVars

\* PublishDiagnostics(ctx, nil) runs per behaviour
MaxSweeps == 1

\* the onUpdate callback of the file scanner: go s.PublishDiagnostics(ctx, nil)
OnUpdate ==
    /\ ~connClosed
    /\ Len(sweeps) < MaxSweeps
    /\ sweeps' = Append(sweeps, NewSweep)
    /\ UNCHANGED << docs, trees, pubs, published, lastPayload, script >>
    /\ UNCHANGED srvVars

SeenUris(w) == { sweeps[w].seen[k].uri : k \in DOMAIN sweeps[w].seen }

\* PublishDiagnostics, files == nil: the range over documentManager.documents
\* yields one entry, read without DocumentManager.mu
SweepVisit(w, u) ==
    /\ sweeps[w].pc = "enum"
    /\ docs[u].open
    /\ u \notin SeenUris(w)
    /\ sweeps' = [sweeps EXCEPT ![w].seen =
                     Append(@, [uri |-> u, version |-> docs[u].version])]
    /\ UNCHANGED << docs, trees, pubs, published, lastPayload, script >>
    /\ UNCHANGED srvVars

\* PublishDiagnostics: the range ends (an entry inserted while it ran may
\* have been skipped), then go s.publishDiagnostics for every entry collected
SweepEnd(w) ==
    /\ sweeps[w].pc = "enum"
    /\ \/ \A u \in DocUris : docs[u].open => u \in SeenUris(w)
       \/ sweeps[w].race = "map"
    /\ sweeps' = [sweeps EXCEPT ![w].pc = "done"]
    /\ pubs' = pubs \o [k \in DOMAIN sweeps[w].seen |->
                          NewPub(sweeps[w].seen[k].uri, sweeps[w].seen[k].version)]
    /\ UNCHANGED << docs, trees, published, lastPayload, script >>
    /\ UNCHANGED srvVars

\* the Go runtime finds the map written while the range was running and
\* throws "concurrent map iteration and map write": the process ends
SweepFatal(w) ==
    /\ sweeps[w].pc = "enum"
    /\ sweeps[w].race = "map"
    /\ sweeps' = [v \in SweepIds |->
                    [sweeps[v] EXCEPT !.pc = IF v = w THEN "fatal" ELSE "done"]]
    /\ pubs' = [g \in PubIds |-> [pubs[g] EXCEPT !.pc = "done"]]
    /\ connClosed' = TRUE
    /\ UNCHANGED << docs, trees, published, lastPayload, script >>
    /\ UNCHANGED << obsVars, gateVars, runs, scanVars, closeVars, eventVars, rpcVars >>

InitDocs ==
    /\ docs = [u \in AllUris |-> NoDoc]
    /\ trees = <<>>
    /\ pubs = <<>>
    /\ published = <<>>
    /\ lastPayload = [u \in AllUris |-> NoText]
    /\ script = "start"
    /\ sweeps = <<>>

\* ------------------------------------------------------------------------
\* shutdown and exit
\* ------------------------------------------------------------------------

\* the orders in which a range over the map Server.indexers may visit it
Orders == { o \in [1..Cardinality(IndexerIds) -> IndexerIds] :
              \A i \in IndexerIds : \E k \in DOMAIN o : o[k] = i }

\* Server.CloseAll, the loop over the indexers: the indexers whose Close is
\* called when the map is visited in this order and the Close of the
\* indexers in failing returns an error (the loop returns on the first error)
CloseAll(order, failing) ==
    { order[k] : k \in { n \in DOMAIN order :
                           \A m \in 1..(n - 1) : order[m] \notin failing } }

\* case "shutdown": CloseAll closes the DocumentManager, then the indexers
HandleShutdown ==
    /\ ~connClosed
    /\ BuiltIn("shutdown")
    /\ shutdowns < MaxShutdowns
    /\ shutdowns' = shutdowns + 1
    /\ dmCloseCalls' = dmCloseCalls + 1
    /\ \E order \in Orders, failing \in SUBSET IndexerIds :
         closeCalls' = [i \in IndexerIds |->
                          IF i \in CloseAll(order, failing)
                          THEN closeCalls[i] + 1 ELSE closeCalls[i]]
    /\ LET st == DocManagerClose(DocState(docs, trees))
       IN /\ docs' = st.docs
          /\ trees' = st.trees
    /\ script' = "off"
    /\ lastRpc' = Rpc("shutdown", FALSE, 1, <<>>, "shutdown", NilRet, <<>>)
    /\ UNCHANGED << obsVars, gateVars, connClosed, runs, scanVars, eventVars,
                    pubs, published, lastPayload, sweeps, registry, rootPath >>

\* req.Method == "exit", tested before the commands: conn.Close()
HandleExitKeepsOpen ==
    /\ ~connClosed
    /\ lastRpc' = Rpc("exit", TRUE, 0, <<>>, "exit", NilRet, <<>>)
    /\ UNCHANGED << obsVars, gateVars, connClosed, runs, scanVars, closeVars, eventVars,
                    docVars, registry, rootPath >>

HandleExit ==
    /\ ~connClosed
    /\ connClosed' = TRUE
    /\ lastRpc' = Rpc("exit", TRUE, 0, <<>>, "exit", NilRet, <<>>)
    /\ UNCHANGED << obsVars, gateVars, runs, scanVars, closeVars, eventVars,
                    docVars, registry, rootPath >>

\* ------------------------------------------------------------------------
\* The workspace file events, handled on the read loop
\* ------------------------------------------------------------------------

\* URIs a client may send
Uris ==
    { <<FilePrefix, "a.xml">>, <<FilePrefix, "b.php">>,
      <<FilePrefix, FilePrefix, "a.xml">> }

\* entries of one request
MaxBatch == 2

\* strings.TrimPrefix(uri, "file://")
TrimPrefixNone(u) == u

TrimPrefix(u) == IF u # <<>> /\ Head(u) = FilePrefix THEN Tail(u) ELSE u

SeqsUpTo(S, n) == UNION { [1..k -> S] : k \in 1..n }

\* files[i] = strings.TrimPrefix(file.URI, "file://") for every entry
TrimAll(uris) == [k \in DOMAIN uris |-> TrimPrefix(uris[k])]

\* protocol.FileCreated, protocol.FileChanged, protocol.FileDeleted
FileCreated == "Created"

FileChanged == "Changed"

FileDeleted == "Deleted"

ApplyScan(st) ==
    /\ hashes' = st.hashes
    /\ indexed' = st.indexed
    /\ afterClose' = st.afterClose

\* if obs, the request is followed; one request of a behaviour is followed
CanHandleFileEvent(obs, m) ==
    /\ ~connClosed
    /\ BuiltIn(m)
    /\ fileEvents < MaxFileEvents
    /\ obs => lastRpc.by = ""

\* the request and the scanner calls of its handler, if followed
Followed(obs, m, params, calls) ==
    lastRpc' = IF obs THEN Rpc(m, TRUE, 0, params, m, NilRet, calls) ELSE lastRpc

\* case "workspace/didCreateFiles"
HandleDidCreateFiles(obs) ==
    /\ CanHandleFileEvent(obs, "workspace/didCreateFiles")
    /\ \E uris \in SeqsUpTo(Uris, MaxBatch) :
         /\ ApplyScan(IndexFiles(ScanState(hashes, indexed, afterClose), disk,
                                 closeCalls, TrimAll(uris)))
         /\ Followed(obs, "workspace/didCreateFiles", uris,
                     << ScanCall("IndexFiles", TrimAll(uris), FALSE) >>)
    /\ fileEvents' = fileEvents + 1
    /\ onLoop' = onLoop + 1
    /\ UNCHANGED << obsVars, gateVars, connClosed, runs, disk, closeVars,
                    docVars, registry, rootPath >>

\* case "workspace/didDeleteFiles"
HandleDidDeleteFiles(obs) ==
    /\ CanHandleFileEvent(obs, "workspace/didDeleteFiles")
    /\ \E uris \in SeqsUpTo(Uris, MaxBatch) :
         /\ ApplyScan(RemoveFiles(ScanState(hashes, indexed, afterClose),
                                  closeCalls, TrimAll(uris)))
         /\ Followed(obs, "workspace/didDeleteFiles", uris,
                     << ScanCall("RemoveFiles", TrimAll(uris), FALSE) >>)
    /\ fileEvents' = fileEvents + 1
    /\ onLoop' = onLoop + 1
    /\ UNCHANGED << obsVars, gateVars, connClosed, runs, disk, closeVars,
                    docVars, registry, rootPath >>

\* case "workspace/didRenameFiles": IndexFiles(newFiles), RemoveFiles(oldFiles)
HandleDidRenameFiles(obs) ==
    /\ CanHandleFileEvent(obs, "workspace/didRenameFiles")
    /\ \E files \in SeqsUpTo([old : Uris, new : Uris], MaxBatch),
          err \in BOOLEAN :
         LET oldFiles == [k \in DOMAIN files |-> TrimPrefix(files[k].old)]
             newFiles == [k \in DOMAIN files |-> TrimPrefix(files[k].new)]
             st1 == IndexFiles(ScanState(hashes, indexed, afterClose), disk,
                               closeCalls, newFiles)
         IN /\ ApplyScan(RemoveFiles(st1, closeCalls, oldFiles))
            /\ Followed(obs, "workspace/didRenameFiles", files,
                        << ScanCall("IndexFiles", newFiles, err),
                           ScanCall("RemoveFiles", oldFiles, FALSE) >>)
    /\ fileEvents' = fileEvents + 1
    /\ onLoop' = onLoop + 2
    /\ UNCHANGED << obsVars, gateVars, connClosed, runs, disk, closeVars,
                    docVars, registry, rootPath >>

\* the URIs of the changes of these types, in the order of the request,
\* each with strings.TrimPrefix applied
RECURSIVE SelectSeqOf(_, _)
SelectSeqOf(s, types) ==
    IF s = <<>> THEN <<>>
    ELSE IF Head(s).type \in types
    THEN <<TrimPrefix(Head(s).uri)>> \o SelectSeqOf(Tail(s), types)
    ELSE SelectSeqOf(Tail(s), types)

\* a handler that removes the deleted files before it indexes the others
HandleDidChangeWatchedFilesRemoveFirst(obs) ==
    /\ CanHandleFileEvent(obs, "workspace/didChangeWatchedFiles")
    /\ \E changes \in SeqsUpTo([uri : Uris,
                                type : {FileCreated, FileChanged, FileDeleted}],
                               MaxBatch) :
         LET createFiles == SelectSeqOf(changes, {FileCreated, FileChanged})
             deleteFiles == SelectSeqOf(changes, {FileDeleted})
             st0 == ScanState(hashes, indexed, afterClose)
             st1 == IF Len(deleteFiles) > 0
                    THEN RemoveFiles(st0, closeCalls, deleteFiles) ELSE st0
             st2 == IF Len(createFiles) > 0
                    THEN IndexFiles(st1, disk, closeCalls, createFiles) ELSE st1
             calls == (IF Len(createFiles) > 0 THEN 1 ELSE 0)
                        + (IF Len(deleteFiles) > 0 THEN 1 ELSE 0)
         IN /\ ApplyScan(st2)
            /\ onLoop' = onLoop + calls
            /\ Followed(obs, "workspace/didChangeWatchedFiles", changes,
                        (IF Len(deleteFiles) > 0
                         THEN << ScanCall("RemoveFiles", deleteFiles, FALSE) >>
                         ELSE <<>>)
                        \o (IF Len(createFiles) > 0
                            THEN << ScanCall("IndexFiles", createFiles, FALSE) >>
                            ELSE <<>>))
    /\ fileEvents' = fileEvents + 1
    /\ UNCHANGED << obsVars, gateVars, connClosed, runs, disk, closeVars,
                    docVars, registry, rootPath >>

\* case "workspace/didChangeWatchedFiles": the Created and Changed URIs are
\* collected in createFiles, the Deleted ones in deleteFiles; IndexFiles runs
\* if createFiles is not empty, then RemoveFiles if deleteFiles is not empty
HandleDidChangeWatchedFiles(obs) ==
    /\ CanHandleFileEvent(obs, "workspace/didChangeWatchedFiles")
    /\ \E changes \in SeqsUpTo([uri : Uris,
                                type : {FileCreated, FileChanged, FileDeleted}],
                               MaxBatch) :
         LET createFiles == SelectSeqOf(changes, {FileCreated, FileChanged})
             deleteFiles == SelectSeqOf(changes, {FileDeleted})
             st0 == ScanState(hashes, indexed, afterClose)
             st1 == IF Len(createFiles) > 0
                    THEN IndexFiles(st0, disk, closeCalls, createFiles) ELSE st0
             st2 == IF Len(deleteFiles) > 0
                    THEN RemoveFiles(st1, closeCalls, deleteFiles) ELSE st1
             calls == (IF Len(createFiles) > 0 THEN 1 ELSE 0)
                        + (IF Len(deleteFiles) > 0 THEN 1 ELSE 0)
         IN /\ ApplyScan(st2)
            /\ onLoop' = onLoop + calls
            /\ Followed(obs, "workspace/didChangeWatchedFiles", changes,
                        (IF Len(createFiles) > 0
                         THEN << ScanCall("IndexFiles", createFiles, FALSE) >>
                         ELSE <<>>)
                        \o (IF Len(deleteFiles) > 0
                            THEN << ScanCall("RemoveFiles", deleteFiles, FALSE) >>
                            ELSE <<>>))
    /\ fileEvents' = fileEvents + 1
    /\ UNCHANGED << obsVars, gateVars, connClosed, runs, disk, closeVars,
                    docVars, registry, rootPath >>

\* ------------------------------------------------------------------------
\* initialize, the commands, unknown methods, parameters that do not decode
\* ------------------------------------------------------------------------

\* the response that jsonrpc2.HandlerWithError sends for what handle
\* returned: none for a notification; the error, an error that is no
\* *jsonrpc2.Error with code 0; else the result
Response(rpc) ==
    IF rpc.notif \/ rpc.ret.kind = "panic" THEN [kind |-> "none", code |-> NoCode]
    ELSE IF rpc.ret.kind = "error" THEN [kind |-> "error", code |-> rpc.ret.code]
    ELSE [kind |-> "result", code |-> NoCode]

\* req.ID: the number of the request; a notification carries the zero ID
ZeroId == 0

RequestIds == {0, 1}

IdOf(notif, id) == IF notif THEN ZeroId ELSE id

\* req.Params == nil: the request has no params member
Absent == <<>>

\* req.Params of a request that has a params member, as raw JSON
RawJson == { <<"null">>, <<"[", "1", "]">>, <<"{", "}">> }

\* the sequences over S without repetition that hold all of S: the orders
\* in which a range over a Go map may yield its keys
Perms(S) ==
    { q \in [1..Cardinality(S) -> S] :
        \A i, j \in 1..Cardinality(S) : i # j => q[i] # q[j] }

\* the elements of the provider's list, field f of the providers
Elements(providers, f) ==
    UNION { { providers[k][f][n] : n \in DOMAIN providers[k][f] } :
              k \in DOMAIN providers }

RECURSIVE Concat(_, _)
\* items = append(items, providerItems...) over the providers in order
Concat(providers, f) ==
    IF providers = <<>> THEN <<>>
    ELSE providers[1][f] \o Concat(Tail(providers), f)

\* Server.collectTriggerCharacters: the keys of triggerCharsMap, in the
\* order the range over the map yields them
CollectTriggerCharactersNoDedup(completionProviders) ==
    { Concat(completionProviders, "triggers") }

CollectTriggerCharacters(completionProviders) ==
    Perms(Elements(completionProviders, "triggers"))

\* Server.collectCodeActionKinds
CollectCodeActionKinds(codeActionProviders) ==
    Perms(Elements(codeActionProviders, "kinds"))

\* os.Getwd()
Cwd == <<"/cwd">>

\* Server.extractRootPath
ExtractRootPathUriFirst(params, cwd) ==
    IF params.rootUri # <<>> THEN TrimPrefix(params.rootUri)
    ELSE IF params.rootPath # <<>> THEN params.rootPath
    ELSE IF Len(params.workspaceFolders) > 0
         THEN TrimPrefix(params.workspaceFolders[1].uri)
    ELSE cwd

ExtractRootPath(params, cwd) ==
    IF params.rootPath # <<>> THEN params.rootPath
    ELSE IF params.rootUri # <<>> THEN TrimPrefix(params.rootUri)
    ELSE IF Len(params.workspaceFolders) > 0
         THEN TrimPrefix(params.workspaceFolders[1].uri)
    ELSE cwd

\* workspace folders of one initialize request
MaxFolders == 2

RootUris == { <<FilePrefix, "/u">>, <<FilePrefix, FilePrefix, "/u">>, <<"/u">> }

FolderUris == { <<FilePrefix, "/f">>, <<FilePrefix, "/g">> }

\* protocol.InitializeParams as decoded: RootPath, RootURI, WorkspaceFolders
InitializeParams ==
    [ rootPath : { <<>>, <<"/p">> },
      rootUri : { <<>> } \cup RootUris,
      workspaceFolders : { <<>> } \cup SeqsUpTo([uri : FolderUris], MaxFolders) ]

\* case "initialize" with params that decode: Server.initialize sets the
\* root path, starts the file watcher (which has no state here) and
\* returns the capabilities
HandleInitialize(params) ==
    /\ ~connClosed
    /\ BuiltIn("initialize")
    /\ rootPath' = ExtractRootPath(params, Cwd)
    /\ \E triggerChars \in CollectTriggerCharacters(registry.completion),
          codeActionKinds \in CollectCodeActionKinds(registry.codeAction) :
         lastRpc' = Rpc("initialize", FALSE, 1, << params >>, "initialize",
                        ResultRet([ triggerCharacters |-> triggerChars,
                                    codeActionKinds |-> codeActionKinds ]),
                        <<>>)
    /\ UNCHANGED << obsVars, gateVars, connClosed, runs, scanVars, closeVars, eventVars,
                    docVars, registry >>

\* a call of a command function: fn is the provider whose function
\* commandMap holds, raw the params it received
CommandCall(fn, raw) == [op |-> "command", fn |-> fn, raw |-> raw]

\* what a command function may return
CommandRets == { NilRet, ResultRet(<<"ok">>), ErrorRet(NoCode) }

\* cmd, ok := s.commandMap[req.Method]; ok: return cmd(ctx, req.Params).
\* A request with the method exit never comes here.
HandleCommand(m, notif, id, raw) ==
    /\ ~connClosed
    /\ m # "exit"
    /\ m \in DOMAIN registry.commands
    /\ \E ret \in CommandRets :
         lastRpc' = Rpc(m, notif, IdOf(notif, id), raw, "command", ret,
                        << CommandCall(registry.commands[m], raw) >>)
    /\ UNCHANGED << obsVars, gateVars, connClosed, runs, scanVars, closeVars, eventVars,
                    docVars, registry, rootPath >>

\* methods that are no case of the switch
UnknownMethods == { "foo/bar", "$/cancelRequest" }

\* default: (nil, nil) if req.ID == (jsonrpc2.ID{}), else method not found
HandleUnknown(m, notif, id) ==
    /\ ~connClosed
    /\ BuiltIn(m)
    /\ lastRpc' = Rpc(m, notif, IdOf(notif, id), <<"{", "}">>, "default",
                      IF IdOf(notif, id) = ZeroId
                      THEN NilRet ELSE ErrorRet(CodeMethodNotFound),
                      <<>>)
    /\ UNCHANGED << obsVars, gateVars, connClosed, runs, scanVars, closeVars, eventVars,
                    docVars, registry, rootPath >>

\* the cases of the switch that decode *req.Params
DecodingMethods ==
    { "initialize", "textDocument/didOpen", "textDocument/didChange",
      "textDocument/didClose", "textDocument/completion",
      "textDocument/definition", "textDocument/references",
      "textDocument/codeLens", "textDocument/hover",
      "textDocument/diagnostic", "codeLens/resolve",
      "textDocument/codeAction", "workspace/didCreateFiles",
      "workspace/didRenameFiles", "workspace/didDeleteFiles",
      "workspace/didChangeWatchedFiles" }

\* params that json.Unmarshal rejects for every params type of the switch
Undecodable == <<"\"", "x", "\"">>

\* json.Unmarshal(*req.Params, &params): the dereference of nil panics when
\* the request has no params and nothing recovers, so the process ends;
\* params that do not decode return a parse error for initialize and the
\* error of json.Unmarshal for every other method
HandleBadParams(m, notif, id, raw) ==
    /\ ~connClosed
    /\ BuiltIn(m)
    /\ connClosed' = (raw = Absent)
    /\ lastRpc' = Rpc(m, notif, IdOf(notif, id), raw, m,
                      IF raw = Absent THEN PanicRet
                      ELSE IF m = "initialize" THEN ErrorRet(CodeParseError)
                      ELSE ErrorRet(NoCode),
                      <<>>)
    /\ UNCHANGED << obsVars, gateVars, runs, scanVars, closeVars, eventVars,
                    docVars, registry, rootPath >>

\* ------------------------------------------------------------------------
\* completion, definition, codeAction, diagnostic
\* ------------------------------------------------------------------------

\* DocumentManager.GetNodeAtPosition: ok iff the document is in the map and
\* has a tree
GetNodeAtPosition(d, u) == d[u].open /\ d[u].tree # NoTree

\* filepath.Ext(params.TextDocument.URI) == ".php"
IsPhp(u) == u = "e.php"

\* Server.GetIndexer(id): ok
GetIndexer(id) == id \in registry.indexers

\* what a provider returns for a request on document u
ProviderOut(provider, u) == IF u \in provider.matches THEN provider.out ELSE <<>>

\* a call of a provider: fn its place in the list, out what it returned,
\* err whether it returned an error
ProviderCall(fn, out, err) == [op |-> "provider", fn |-> fn, out |-> out, err |-> err]

\* the calls that the loop over the providers makes; the providers of
\* failing return an error
ProviderCalls(providers, u, failing) ==
    [k \in DOMAIN providers |->
        ProviderCall(k, ProviderOut(providers[k], u), k \in failing)]

RECURSIVE AppendAllReversed(_)
AppendAllReversed(calls) ==
    IF calls = <<>> THEN <<>>
    ELSE AppendAllReversed(Tail(calls))
            \o (IF Head(calls).err THEN <<>> ELSE Head(calls).out)

RECURSIVE AppendAll(_)
\* all = append(all, result...) for every provider in the order of the
\* list; the result of a provider that returned an error is skipped
AppendAll(calls) ==
    IF calls = <<>> THEN <<>>
    ELSE (IF Head(calls).err THEN <<>> ELSE Head(calls).out)
            \o AppendAll(Tail(calls))

\* the handler of a request on a document returned ret after these calls
Queried(m, id, u, ret, calls) ==
    /\ ~connClosed
    /\ BuiltIn(m)
    /\ connClosed' = (ret.kind = "panic")
    /\ lastRpc' = Rpc(m, FALSE, id, << u >>, m, ret, calls)
    /\ UNCHANGED << obsVars, gateVars, runs, scanVars, closeVars, eventVars,
                    docVars, registry, rootPath >>

\* Server.completion
HandleCompletion(id, u) ==
    LET calls == ProviderCalls(registry.completion, u, {})
    IN Queried("textDocument/completion", id, u,
               ResultRet([isIncomplete |-> FALSE, items |-> AppendAll(calls)]),
               calls)

\* Server.definition: for a .php document with a tree the indexer
\* php.index is asserted to be a *php.PHPIndex, which panics on the nil
\* interface that GetIndexer returns when no such indexer is registered
HandleDefinition(id, u) ==
    LET calls == ProviderCalls(registry.definition, u, {})
    IN IF GetNodeAtPosition(docs, u) /\ IsPhp(u) /\ ~GetIndexer("php.index")
       THEN Queried("textDocument/definition", id, u, PanicRet, <<>>)
       ELSE Queried("textDocument/definition", id, u,
                    ResultRet([items |-> AppendAll(calls)]), calls)

\* Server.codeAction
HandleCodeAction(id, u) ==
    LET calls == ProviderCalls(registry.codeAction, u, {})
    IN Queried("textDocument/codeAction", id, u,
               ResultRet([items |-> AppendAll(calls)]), calls)

\* Server.diagnostic: no items, and no provider asked, for a document that
\* is not open or has no tree
HandleDiagnostic(id, u) ==
    \E failing \in SUBSET DOMAIN registry.diagnostics :
        LET calls == ProviderCalls(registry.diagnostics, u, failing)
        IN IF ~GetDocumentText(docs, u).ok \/ GetRootNode(docs, u) = NoTree
           THEN Queried("textDocument/diagnostic", id, u,
                        ResultRet([items |-> <<>>]), <<>>)
           ELSE Queried("textDocument/diagnostic", id, u,
                        ResultRet([items |-> AppendAll(calls)]), calls)

\* ------------------------------------------------------------------------
\* DocumentManager.GetNodeAtPosition (internal/lsp/document.go)
\* ------------------------------------------------------------------------

MaxLine == 2

MaxCharacter == 4

\* a nil *tree_sitter.Node
NoNode == 0

\* the lengths of the lines of a text (strings.Split(text, "\n")): "x" has
\* a line of three bytes and a line of two, "y" has one line of two bytes
LinesOf(text) == IF text = "x" THEN <<3, 2>> ELSE <<2>>

\* the syntax tree of a text, node 1 is the root: the byte span of every
\* node and its children in document order.  In "x" the siblings 4 and 5
\* meet at byte 1 and the line break lies between 2 and 3; the root of "y"
\* starts after a leading blank.
TreeOf(text) ==
    IF text = "x"
    THEN << [start |-> 0, end |-> 6, kids |-> <<2, 3>>],
            [start |-> 0, end |-> 3, kids |-> <<4, 5>>],
            [start |-> 4, end |-> 6, kids |-> <<>>],
            [start |-> 0, end |-> 1, kids |-> <<>>],
            [start |-> 1, end |-> 3, kids |-> <<>>] >>
    ELSE << [start |-> 1, end |-> 2, kids |-> <<2>>],
            [start |-> 1, end |-> 2, kids |-> <<>>] >>

\* findNodeAtPosition, "convert position to byte offset": the lines before
\* the row count with their line break, the row adds the column; a row
\* past the last line leaves the sum of all lines
RECURSIVE OffsetFrom(_, _, _, _)
OffsetFrom(lines, i, row, col) ==
    IF i > Len(lines) THEN 0
    ELSE IF i - 1 = row THEN col
    ELSE lines[i] + 1 + OffsetFrom(lines, i + 1, row, col)

TargetOffset(lines, row, col) == OffsetFrom(lines, 1, row, col)

\* a descent that follows the last child that contains the offset
RECURSIVE FindNodeAtPositionLastChild(_, _, _)
FindNodeAtPositionLastChild(tree, n, off) ==
    IF n = NoNode THEN NoNode
    ELSE IF tree[n].start <= off /\ off <= tree[n].end
    THEN LET hits == { i \in 1..Len(tree[n].kids) :
                         FindNodeAtPositionLastChild(tree, tree[n].kids[i], off) # NoNode }
         IN IF hits = {} THEN n
            ELSE FindNodeAtPositionLastChild(
                     tree, tree[n].kids[CHOOSE i \in hits : \A j \in hits : i >= j], off)
    ELSE NoNode

\* findNodeAtPosition: nil when the span of the node does not contain the
\* offset; else the result of the first child, in order, whose result is
\* not nil; else the node itself
RECURSIVE FindNodeAtPosition(_, _, _)
FindNodeAtPosition(tree, n, off) ==
    IF n = NoNode THEN NoNode
    ELSE IF tree[n].start <= off /\ off <= tree[n].end
    THEN LET hits == { i \in 1..Len(tree[n].kids) :
                         FindNodeAtPosition(tree, tree[n].kids[i], off) # NoNode }
         IN IF hits = {} THEN n
            ELSE FindNodeAtPosition(
                     tree, tree[n].kids[CHOOSE i \in hits : \A j \in hits : i <= j], off)
    ELSE NoNode

\* DocumentManager.GetNodeAtPosition: (nil, nil, false) for a URI that is
\* not in the map or has no tree; else the node of the descent, and when
\* the descent finds none the node NamedDescendantForPointRange returns,
\* which is the root when no named descendant spans the point
NodeAtPosition(d, u, line, character) ==
    IF ~d[u].open \/ d[u].tree = NoTree
    THEN [ok |-> FALSE, node |-> NoNode, descent |-> FALSE]
    ELSE LET n == FindNodeAtPosition(TreeOf(d[u].text), 1,
                      TargetOffset(LinesOf(d[u].text), line, character))
         IN IF n # NoNode
            THEN [ok |-> TRUE, node |-> n, descent |-> TRUE]
            ELSE [ok |-> TRUE, node |-> 1, descent |-> FALSE]

NoNodeAt ==
    [uri |-> "", line |-> 0, character |-> 0, ok |-> FALSE, node |-> NoNode,
     descent |-> FALSE]

\* a provider calls GetNodeAtPosition(uri, line, character); one call is
\* followed
NodeAt(u, line, character) ==
    /\ ~connClosed
    /\ nodeAt = NoNodeAt
    /\ LET r == NodeAtPosition(docs, u, line, character)
       IN nodeAt' = [uri |-> u, line |-> line, character |-> character,
                     ok |-> r.ok, node |-> r.node, descent |-> r.descent]
    /\ UNCHANGED << lastScan, dispatched, inFlight, regVars, gateVars, connClosed, runs,
                    scanVars, closeVars, eventVars, docVars, rpcVars >>

\* ------------------------------------------------------------------------
\* Server.RegisterIndexer
\* ------------------------------------------------------------------------

MaxRegistrations == 4

\* the IDs of the indexers that are registered
RegIds == IndexerIds \cup {"twig.index"}

\* no indexer under the ID; an indexer is named by its place among the
\* indexers that were added to the scanner
NoIndexer == 0

\* Server.RegisterIndexer: s.indexers[indexer.ID()] = indexer, then
\* s.fileScanner.AddIndexer(indexer), which adds the indexer to those the
\* scanner dispatches to
RegisterIndexer(id) ==
    /\ Len(scannerIndexers) < Cardinality(IndexerIds) + MaxRegistrations
    /\ indexers' = [indexers EXCEPT ![id] = Len(scannerIndexers) + 1]
    /\ scannerIndexers' = Append(scannerIndexers, id)
    /\ UNCHANGED << locale, lastScan, dispatched, inFlight, nodeAt, gateVars, connClosed,
                    runs, scanVars, closeVars, eventVars, docVars, rpcVars >>

\* ------------------------------------------------------------------------
\* extractLocaleFromPath, isLocalePattern, normalizeLocale (snippet hover)
\* ------------------------------------------------------------------------

MaxDirs == 2

MaxSegments == 2

\* strings.Split(s, sep) with a separator of one character
RECURSIVE SplitOn(_, _)
SplitOn(s, sep) ==
    IF \A k \in DOMAIN s : s[k] # sep THEN << s >>
    ELSE LET k == CHOOSE n \in DOMAIN s : s[n] = sep /\ \A j \in 1..(n - 1) : s[j] # sep
         IN << SubSeq(s, 1, k - 1) >> \o SplitOn(SubSeq(s, k + 1, Len(s)), sep)

\* strings.Join(parts, sep)
RECURSIVE JoinWith(_, _)
JoinWith(parts, sep) ==
    IF parts = <<>> THEN <<>>
    ELSE IF Len(parts) = 1 THEN parts[1]
    ELSE parts[1] \o << sep >> \o JoinWith(Tail(parts), sep)

\* isLocalePattern: two characters, or five with '-' or '_' in the middle
IsLocalePattern(s) == Len(s) = 2 \/ (Len(s) = 5 /\ s[3] \in {"-", "_"})

\* normalizeLocale: every underscore becomes a dash
NormalizeLocale(s) == [k \in DOMAIN s |-> IF s[k] = "_" THEN "-" ELSE s[k]]

Unknown == << "unknown" >>

\* a function that looks at the directory before the file name
ExtractLocaleFromPathDirFirst(path) ==
    LET comps == SplitOn([k \in DOMAIN path |-> IF path[k] = "\\" THEN "/" ELSE path[k]], "/")
        parts == SplitOn(comps[Len(comps)], ".")
        hits  == { k \in DOMAIN parts : IsLocalePattern(parts[k]) }
    IN IF Len(comps) > 1 /\ IsLocalePattern(comps[Len(comps) - 1])
       THEN NormalizeLocale(comps[Len(comps) - 1])
       ELSE IF hits # {}
       THEN NormalizeLocale(parts[CHOOSE k \in hits : \A j \in hits : k <= j])
       ELSE Unknown

\* extractLocaleFromPath: backslashes count as slashes; the first segment of
\* the file name, split at the dots, that is a locale pattern is returned
\* normalized; else the name of the directory of the file if it is one;
\* else "unknown"
ExtractLocaleFromPath(path) ==
    LET comps == SplitOn([k \in DOMAIN path |-> IF path[k] = "\\" THEN "/" ELSE path[k]], "/")
        parts == SplitOn(comps[Len(comps)], ".")
        hits  == { k \in DOMAIN parts : IsLocalePattern(parts[k]) }
    IN IF hits # {}
       THEN NormalizeLocale(parts[CHOOSE k \in hits : \A j \in hits : k <= j])
       ELSE IF Len(comps) > 1 /\ IsLocalePattern(comps[Len(comps) - 1])
       THEN NormalizeLocale(comps[Len(comps) - 1])
       ELSE Unknown

\* names of directories and segments of file names
LocaleNames ==
    { << "d", "e" >>, << "d", "e", "-", "D", "E" >>, << "e", "n", "_", "G", "B" >>,
      << "d", "e", "D", "E", "x" >> }

Json == << "j", "s", "o", "n" >>

\* the path of the file with these directories and these segments of its
\* name before the extension
PathOf(dirs, segs, sep) ==
    JoinWith(dirs \o << JoinWith(segs \o << Json >>, ".") >>, sep)

NoLocale == [dirs |-> <<>>, segs |-> <<>>, sep |-> "", result |-> <<>>]

\* extractLocaleFromPath is called with a path; one call is followed
ExtractLocale(dirs, segs, sep) ==
    /\ locale = NoLocale
    /\ locale' = [dirs |-> dirs, segs |-> segs, sep |-> sep,
                  result |-> ExtractLocaleFromPath(PathOf(dirs, segs, sep))]
    /\ UNCHANGED << lastScan, dispatched, inFlight, nodeAt, indexers,
                    scannerIndexers, gateVars, connClosed, runs, scanVars,
                    closeVars, eventVars, docVars, rpcVars >>

\* ------------------------------------------------------------------------
\* The specifications
\* ------------------------------------------------------------------------

\* the workspace when the server starts, and the HashStore of the last run
DiskInits == { [p \in Paths |-> 1], [p \in Paths |-> IF p = "a.xml" THEN 1 ELSE NoHash] }

HashInits == { [p \in Paths |-> NoHash], [p \in Paths |-> 1] }

\* the server after NewServer and the RegisterIndexer calls, before Start
InitServer ==
    /\ connClosed = FALSE
    /\ runs = <<>>
    /\ disk \in DiskInits
    /\ hashes \in HashInits
    /\ indexed = [i \in IndexerIds |->
                    { p \in Paths : hashes[p] # NoHash /\ i \in Matching(<<p>>) }]
    /\ closeCalls = [i \in IndexerIds |-> 0]
    /\ afterClose = [i \in IndexerIds |-> FALSE]
    /\ dmCloseCalls = 0
    /\ shutdowns = 0
    /\ fileEvents = 0
    /\ onLoop = 0
    /\ rootPath = <<>>
    /\ lastRpc = NoRpc
    /\ lastScan = NoScan
    /\ dispatched = [p \in Paths |-> NoHash]
    /\ inFlight = {}
    /\ nodeAt = NoNodeAt
    /\ locale = NoLocale
    /\ scannerIndexers = <<"xml.index", "php.index">>
    /\ indexers = [id \in RegIds |->
                     IF id = "xml.index" THEN 1 ELSE IF id = "php.index" THEN 2
                     ELSE NoIndexer]
    /\ InitDocs

\* a released server (version "2") whose cache directory holds no
\* version.txt, or the one the same version wrote
Init ==
    /\ version = <<"2">>
    /\ cacheDir = "/cache"
    /\ versionFile \in { [exists |-> FALSE, data |-> <<>>],
                         [exists |-> TRUE, data |-> <<"2">>] }
    /\ InitServer
    /\ registry = NoRegistry

\* Spec: the indexAll runs that initialized and shopware/forceReindex start
Next ==
    \/ HandleInitialized(MaxRuns)
    \/ HandleForceReindex(MaxRuns)
    \/ HandleExit
    \/ \E r \in RunIds : Gate(r)
    \/ \E r \in RunIds : NotifyStarted(r)
    \/ \E r \in RunIds : ClearHashes(r)
    \/ \E r \in RunIds : ScanStart(r)
    \/ \E r \in RunIds, p \in Paths : ScanFile(r, p)
    \/ \E r \in RunIds : ScanEnd(r)
    \/ \E r \in RunIds : ScanFail(r)
    \/ \E r \in RunIds : NotifyCompleted(r)

Spec == Init /\ [][Next]_vars

\* SpecClose: shutdown, the requests that follow it and a run in progress
NextClose ==
    \/ HandleInitialized(MaxCloseRuns)
    \/ HandleForceReindex(MaxCloseRuns)
    \/ HandleShutdown
    \/ HandleExit
    \/ HandleDidCreateFiles(FALSE)
    \/ HandleDidDeleteFiles(FALSE)
    \/ HandleDidRenameFiles(FALSE)
    \/ HandleDidChangeWatchedFiles(FALSE)
    \/ \E r \in RunIds : Gate(r)
    \/ \E r \in RunIds : NotifyStarted(r)
    \/ \E r \in RunIds : ClearHashes(r)
    \/ \E r \in RunIds : ScanStart(r)
    \/ \E r \in RunIds, p \in Paths : ScanFile(r, p)
    \/ \E r \in RunIds : ScanEnd(r)
    \/ \E r \in RunIds : ScanFail(r)
    \/ \E r \in RunIds : NotifyCompleted(r)

SpecClose == Init /\ [][NextClose]_vars

\* SpecGate: initialized for every version string and every version.txt
InitGate ==
    /\ version \in Versions
    /\ cacheDir \in CacheDirs
    /\ versionFile \in VersionFiles
    /\ InitServer
    /\ registry = NoRegistry

NextGate ==
    \/ HandleInitialized(MaxGateRuns)
    \/ HandleExit
    \/ \E r \in RunIds : Gate(r)
    \/ \E r \in RunIds : NotifyStarted(r)
    \/ \E r \in RunIds : ClearHashes(r)
    \/ \E r \in RunIds : ScanStart(r)
    \/ \E r \in RunIds, p \in Paths : ScanFile(r, p)
    \/ \E r \in RunIds : ScanEnd(r)
    \/ \E r \in RunIds : ScanFail(r)
    \/ \E r \in RunIds : NotifyCompleted(r)

SpecGate == InitGate /\ [][NextGate]_vars

\* SpecDoc: the document notifications and the publications they spawn
NextDoc ==
    \/ \E u \in DocUris, text \in Texts, ver \in DocVersions :
         HandleDidOpen(u, text, ver)
    \/ \E u \in DocUris, changes \in { <<>> } \cup SeqsUpTo(Texts, MaxChanges),
          ver \in DocVersions :
         HandleDidChange(u, changes, ver)
    \/ \E u \in DocUris : HandleDidClose(u)
    \/ \E g \in PubIds : PubReadText(g)
    \/ \E g \in PubIds : PubReadRoot(g)
    \/ \E g \in PubIds : PubNotify(g)

\* the same server with a workspace that was indexed by the last run
InitDoc ==
    /\ Init
    /\ versionFile.exists
    /\ \A p \in Paths : disk[p] # NoHash /\ hashes[p] # NoHash

SpecDoc == InitDoc /\ [][NextDoc]_vars

\* SpecEvents: a workspace file event, followed with the calls its handler
\* makes on the file scanner, from every initial state of the scanner
InitEvents ==
    /\ Init
    /\ versionFile.exists

NextEvents ==
    \/ HandleDidCreateFiles(TRUE)
    \/ HandleDidDeleteFiles(TRUE)
    \/ HandleDidRenameFiles(TRUE)
    \/ HandleDidChangeWatchedFiles(TRUE)
    \/ HandleExit

SpecEvents == InitEvents /\ [][NextEvents]_vars

\* the providers and the commands that the registrations are drawn from
\* (a provider answers with out for the documents of matches and with
\* an empty list for the others)
CompletionProviders ==
    << [triggers |-> <<":", ".">>, matches |-> {"c.twig", "e.php"},
        out |-> <<"c1">>],
       [triggers |-> <<".", ".", "/">>, matches |-> AllUris,
        out |-> <<"c2", "c3">>] >>

CodeActionProviders ==
    << [kinds |-> <<"quickfix">>, matches |-> {"c.twig"}, out |-> <<"a1">>],
       [kinds |-> <<"refactor", "quickfix">>, matches |-> {"c.twig", "d.txt"},
        out |-> <<"a2">>] >>

DefinitionProviders ==
    << [matches |-> {"c.twig", "e.php"}, out |-> <<"l1">>],
       [matches |-> {"e.php", "c.twig"}, out |-> <<"l2", "l3">>] >>

DiagnosticsProviders ==
    << [matches |-> {"c.twig"}, out |-> <<"d1">>],
       [matches |-> {"c.twig", "e.php"}, out |-> <<"d2">>] >>

CommandProviders ==
    { <<>>,
      << {"shopware/x", "exit"} >>,
      << {"shutdown"} >>,
      << {"shopware/x", "foo/bar"}, {"shopware/x", "initialize"} >> }

Prefixes(q) == { SubSeq(q, 1, n) : n \in 0..Len(q) }

\* a released server whose cache is up to date, before any registration
InitPlain ==
    /\ version = <<"2">>
    /\ cacheDir = "/cache"
    /\ versionFile = [exists |-> TRUE, data |-> <<"2">>]
    /\ InitServer
    /\ \A p \in Paths : disk[p] # NoHash /\ hashes[p] # NoHash

\* SpecRpc: the dispatcher of a server with registered commands: shutdown,
\* exit, the commands, unknown methods and requests whose params do not
\* decode
InitRpc ==
    /\ InitPlain
    /\ \E cps \in CommandProviders :
         registry = [NoRegistry EXCEPT !.commands = RegisterCommands(cps)]

NextRpc ==
    \/ HandleShutdown
    \/ HandleExit
    \/ \E m \in DOMAIN registry.commands, notif \in BOOLEAN, id \in RequestIds,
          raw \in RawJson \cup {Absent} :
         HandleCommand(m, notif, id, raw)
    \/ \E m \in UnknownMethods, notif \in BOOLEAN, id \in RequestIds :
         HandleUnknown(m, notif, id)
    \/ \E m \in DecodingMethods, notif \in BOOLEAN, id \in RequestIds,
          raw \in {Absent, Undecodable} :
         HandleBadParams(m, notif, id, raw)

SpecRpc == InitRpc /\ [][NextRpc]_vars

\* SpecInit: initialize on a server with registered completion and
\* code-action providers
InitInit ==
    /\ InitPlain
    /\ \E comp \in Prefixes(CompletionProviders),
          ca \in Prefixes(CodeActionProviders) :
         registry = [NoRegistry EXCEPT !.completion = comp, !.codeAction = ca]

NextInit ==
    \/ \E params \in InitializeParams : HandleInitialize(params)
    \/ HandleExit

SpecInit == InitInit /\ [][NextInit]_vars

\* SpecQuery: the requests on documents, on a server with the first n
\* providers of every kind registered and with or without the indexer
\* php.index; documents are opened, their diagnostics goroutines not yet
\* scheduled
InitQuery ==
    /\ InitPlain
    /\ \E n \in 0..2, ids \in { IndexerIds, {"xml.index"} } :
         registry = [ commands    |-> RegisterCommands(<<>>),
                      completion  |-> SubSeq(CompletionProviders, 1, n),
                      definition  |-> SubSeq(DefinitionProviders, 1, n),
                      codeAction  |-> SubSeq(CodeActionProviders, 1, n),
                      diagnostics |-> SubSeq(DiagnosticsProviders, 1, n),
                      indexers    |-> ids ]

NextQuery ==
    \/ \E u \in AllUris : HandleDidOpen(u, "x", 1)
    \/ \E id \in RequestIds, u \in AllUris : HandleCompletion(id, u)
    \/ \E id \in RequestIds, u \in AllUris : HandleDefinition(id, u)
    \/ \E id \in RequestIds, u \in AllUris : HandleCodeAction(id, u)
    \/ \E id \in RequestIds, u \in AllUris : HandleDiagnostic(id, u)
    \/ HandleExit

SpecQuery == InitQuery /\ [][NextQuery]_vars

\* SpecSweep: the document notifications and the republication of the
\* diagnostics of every open document that the scanner asks for
NextSweep ==
    \/ \E u \in DocUris, text \in Texts, ver \in DocVersions :
         HandleDidOpen(u, text, ver)
    \/ \E u \in DocUris, changes \in { <<>> } \cup SeqsUpTo(Texts, MaxChanges),
          ver \in DocVersions :
         HandleDidChange(u, changes, ver)
    \/ \E u \in DocUris : HandleDidClose(u)
    \/ OnUpdate
    \/ \E w \in SweepIds, u \in DocUris : SweepVisit(w, u)
    \/ \E w \in SweepIds : SweepEnd(w)
    \/ \E w \in SweepIds : SweepFatal(w)
    \/ \E g \in PubIds : PubReadText(g)
    \/ \E g \in PubIds : PubReadRoot(g)
    \/ \E g \in PubIds : PubNotify(g)

SpecSweep == InitDoc /\ [][NextSweep]_vars

\* SpecDocClose: the document notifications, and shutdown among them
NextDocClose ==
    \/ \E u \in DocUris, text \in Texts, ver \in DocVersions :
         HandleDidOpen(u, text, ver)
    \/ \E u \in DocUris, changes \in { <<>> } \cup SeqsUpTo(Texts, MaxChanges),
          ver \in DocVersions :
         HandleDidChange(u, changes, ver)
    \/ \E u \in DocUris : HandleDidClose(u)
    \/ HandleShutdown
    \/ \E g \in PubIds : PubReadText(g)
    \/ \E g \in PubIds : PubReadRoot(g)
    \/ \E g \in PubIds : PubNotify(g)

SpecDocClose == InitDoc /\ [][NextDocClose]_vars

\* SpecReg: further RegisterIndexer calls after those of the two indexers
NextReg ==
    \/ \E id \in RegIds : RegisterIndexer(id)

SpecReg == Init /\ [][NextReg]_vars

\* SpecLocale: extractLocaleFromPath on the paths of snippet files
NextLocale ==
    \/ \E dirs \in { <<>> } \cup SeqsUpTo(LocaleNames, MaxDirs),
          segs \in SeqsUpTo(LocaleNames, MaxSegments), sep \in {"/", "\\"} :
         ExtractLocale(dirs, segs, sep)

SpecLocale == InitDoc /\ [][NextLocale]_vars

\* SpecNode: documents are opened, closed and released by shutdown, and a
\* provider asks for the node at a position
NextNode ==
    \/ \E u \in DocUris, text \in Texts : HandleDidOpen(u, text, 1)
    \/ \E u \in DocUris : HandleDidClose(u)
    \/ HandleShutdown
    \/ \E u \in DocUris, line \in 0..MaxLine, character \in 0..MaxCharacter :
         NodeAt(u, line, character)

SpecNode == InitDoc /\ [][NextNode]_vars

\* SpecScan: a cold start followed by the indexAll runs, the files that
\* change between them, a file event, and the scanner file by file
InitScan ==
    /\ version = Dev
    /\ cacheDir = "/cache"
    /\ versionFile = [exists |-> FALSE, data |-> <<>>]
    /\ InitServer
    /\ registry = NoRegistry
    /\ \A p \in Paths : disk[p] = 1 /\ hashes[p] = NoHash

NextScan ==
    \/ HandleInitialized(MaxRuns)
    \/ HandleForceReindex(MaxRuns)
    \/ \E r \in RunIds : Gate(r)
    \/ \E r \in RunIds : NotifyStarted(r)
    \/ \E r \in RunIds : ClearHashes(r)
    \/ \E r \in RunIds : ScanStart(r)
    \/ \E r \in RunIds, p \in Paths : VisitBegin(r, p)
    \/ \E r \in RunIds, p \in Paths : VisitEnd(r, p)
    \/ \E r \in RunIds : ScanEnd(r)
    \/ \E r \in RunIds : NotifyCompleted(r)
    \/ \E h \in {NoHash, 3} : DiskChange("b.php", h)

SpecScan == InitScan /\ [][NextScan]_vars

\* SpecLock: the same cold start with the forced runs and a file event,
\* whose handler calls the scanner while the workers of the runs do
NextLock ==
    \/ HandleForceReindex(MaxRuns)
    \/ \E r \in RunIds : NotifyStarted(r)
    \/ \E r \in RunIds : ClearHashes(r)
    \/ \E r \in RunIds : ScanStart(r)
    \/ \E r \in RunIds, p \in Paths : VisitBegin(r, p)
    \/ \E r \in RunIds, p \in Paths : VisitEnd(r, p)
    \/ \E r \in RunIds : ScanEnd(r)
    \/ \E r \in RunIds : NotifyCompleted(r)
    \/ \E p \in Paths : FileEventBegin(p)
    \/ \E p \in Paths : FileEventEnd(p)

SpecLock == InitScan /\ [][NextLock]_vars


\* ------------------------------------------------------------------------
\* The claims
\* ------------------------------------------------------------------------

\* indexAll of the run has gone past its forceReindex branch
PastClear(r) ==
    \/ runs[r].pc \in {"scan", "scanning", "notifyDone"}
    \/ runs[r].scanStarted
    \/ runs[r].pc = "done" /\ runs[r].started = 1

\* C1 (SpecGate): when the goroutine of initialized finds a version that is
\* neither empty nor dev and a version.txt that is absent or whose trimmed
\* content differs from it, it passes forceReindex = true to indexAll, and
\* indexAll calls ClearHashes before FileScanner.IndexAll starts: a run past
\* that point, or one whose scan has started, has called ClearHashes.
C1_ForcedScanClearsFirst ==
    \A r \in RunIds :
        (runs[r].kind = "initialized" /\ runs[r].gateCond)
            => /\ runs[r].force
               /\ PastClear(r) => runs[r].clearCalled

\* a forced scan of initialized has started, after ClearHashes
C1_Witness ==
    \E r \in RunIds :
        /\ runs[r].kind = "initialized"
        /\ runs[r].gateCond
        /\ runs[r].scanStarted
        /\ runs[r].clearCalled

\* C2 (Spec): an indexAll that has returned after sending
\* shopware/indexingStarted, on a connection that is still open, has sent
\* exactly one shopware/indexingCompleted, whatever ClearHashes and the scan
\* returned.
C2_StartedThenCompleted ==
    \A r \in RunIds :
        (runs[r].pc = "done" /\ runs[r].started = 1 /\ ~connClosed)
            => runs[r].completed = 1

\* indexAll has been entered and has not returned
InIndexAll(r) == runs[r].pc \in {"clear", "scan", "scanning", "notifyDone"}

\* C3 (Spec): at most one indexAll run is in progress at any time.
C3_AtMostOneIndexAll == Cardinality({ r \in RunIds : InIndexAll(r) }) <= 1

\* C4 (SpecClose): no indexFile or removeFile call reaches an indexer after
\* its Close was called.
C4_NoCallAfterClose == \A i \in IndexerIds : ~afterClose[i]

\* C5 (SpecClose): once shutdown has been handled, the DocumentManager was
\* closed and Close was called on every registered indexer, also when the
\* Close of an indexer returned an error.
C5_EveryIndexerClosed ==
    shutdowns > 0 => /\ dmCloseCalls > 0
                     /\ \A i \in IndexerIds : closeCalls[i] > 0

\* C6 (SpecClose): Close is called at most once on each registered indexer.
C6_CloseAtMostOnce == \A i \in IndexerIds : closeCalls[i] <= 1

\* C7 (SpecDoc): the text of every open document is the final text of the
\* most recent didOpen or didChange for its URI.
C7_TextIsLastPayload ==
    \A u \in DocUris : docs[u].open => docs[u].text = lastPayload[u]

\* the trees of the URI that were never closed
LiveTrees(u) == { k \in DOMAIN trees : trees[k].uri = u /\ trees[k].closes = 0 }

\* C8 (SpecDoc): at most one unreleased tree exists per URI.
C8_OneLiveTreePerUri == \A u \in DocUris : Cardinality(LiveTrees(u)) <= 1

\* C9 (SpecDoc): every publishDiagnostics notification carries the version
\* the document had when its text and when its root node were read.
C9_PublishedVersionIsComputed ==
    \A k \in DOMAIN published :
        /\ published[k].version = published[k].textVer
        /\ published[k].version = published[k].rootVer

\* C10 (SpecDoc): after didOpen(c.twig, version 1) and didChange(c.twig,
\* version 2), once both publications have ended, two notifications were
\* sent and the second one carries version 2.
C10_OpenEditScenario ==
    (script = "edited" /\ \A g \in PubIds : pubs[g].pc = "done")
        => /\ Len(published) = 2
           /\ published[2].version = 2

\* C11 (SpecSweep): every read of DocumentManager.documents and of the fields
\* of its entries runs under the manager's lock, the enumeration done by
\* PublishDiagnostics included: no OpenDocument, UpdateDocument or
\* CloseDocument writes while such an enumeration is in progress.
C11_NoWriteDuringEnumeration ==
    \A w \in SweepIds : sweeps[w].race = "none"

\* C12 (SpecDoc): no publishDiagnostics goroutine runs the diagnostics
\* providers on a node of a tree that didClose or shutdown has closed.
C12_NoNodeOfClosedTree ==
    \A g \in PubIds : ~pubs[g].freed

\* C13 (SpecDocClose): every document in the map whose extension has a
\* registered parser has a tree, after any sequence of didOpen, didChange,
\* didClose and DocumentManager.Close.
C13_ParsedDocumentHasTree ==
    \A u \in DocUris : (docs[u].open /\ HasParser(u)) => docs[u].tree # NoTree

\* C14 (SpecDoc): the tree of a document is the one parsed from its current
\* text, and no reader sees the text of one version of a document with the
\* tree of another: a publishDiagnostics goroutine that holds a root node
\* read it from the version of the document it read the text from.
C14_TreeAndTextOfOneVersion ==
    /\ \A u \in DocUris :
          (docs[u].open /\ docs[u].tree # NoTree)
              => trees[docs[u].tree].text = docs[u].text
    /\ \A g \in PubIds :
          pubs[g].node # NoTree => pubs[g].textVer = pubs[g].rootVer

\* C15 (SpecDoc): the version stored for a document never decreases while
\* the document stays open, whatever didOpen and didChange notifications
\* arrive.
C15_VersionNeverDecreases ==
    [][\A u \in DocUris :
          (docs[u].open /\ docs'[u].open) => docs'[u].version >= docs[u].version]_vars

\* C16 (SpecGate): once the goroutine of initialized has run the version
\* gate without an I/O error, version.txt in the cache directory holds the
\* version of the server, for every version string.
C16_VersionWrittenBack ==
    \A r \in RunIds :
        (runs[r].kind = "initialized" /\ runs[r].pc # "gate"
            /\ cacheDir # "" /\ ~runs[r].gateErr)
            => versionFile = [exists |-> TRUE, data |-> version]

\* C17 (SpecGate): a server whose version is "dev" never forces a reindex:
\* the goroutine of initialized passes forceReindex = false and ClearHashes
\* is not called, whatever version.txt holds.
C17_DevNeverForces ==
    version = Dev
        => \A r \in RunIds : ~runs[r].force /\ ~runs[r].clearCalled

\* a dev server has started its scan next to the version.txt of a release
C17_Witness ==
    /\ version = Dev
    /\ cacheDir # ""
    /\ versionFile.exists
    /\ TrimSpace(versionFile.data) # version
    /\ \E r \in RunIds : runs[r].scanStarted /\ ~runs[r].clearCalled

\* C18 (SpecGate): a server whose version string is empty forces a reindex:
\* the indexAll of initialized calls ClearHashes before it scans.
C18_EmptyVersionForces ==
    \A r \in RunIds :
        (version = <<>> /\ runs[r].kind = "initialized" /\ PastClear(r))
            => runs[r].clearCalled

\* C19 (SpecGate): when version.txt cannot be read or cannot be written,
\* initialized does not force a reindex and ClearHashes is not called.
C19_InaccessibleCacheSkipsGate ==
    \A r \in RunIds :
        runs[r].gateErr => ~runs[r].force /\ ~runs[r].clearCalled

\* C20 (SpecClose): the scanner work that a request triggers runs off the
\* dispatcher: the goroutine that initialized or shopware/forceReindex
\* spawns has not started its scan when the handler returns, and no handler
\* of a workspace file event calls FileScanner.IndexFiles or RemoveFiles on
\* the read loop before it returns.
C20_ScannerOffDispatcher ==
    /\ onLoop = 0
    /\ \A r \in RunIds :
          runs[r].pc \in {"gate", "notifyStart"} => ~runs[r].scanStarted

\* C30 (SpecDoc): in every state of the DocumentManager, UpdateDocument on a
\* URI that is not in the map leaves the manager in the state that
\* OpenDocument leaves it in for the same uri, text and version.
C30_UpdateOfMissingIsOpen ==
    \A u \in DocUris, text \in Texts, ver \in DocVersions :
        ~docs[u].open
            => UpdateDocument(DocState(docs, trees), u, text, ver)
                 = OpenDocument(DocState(docs, trees), u, text, ver)

\* the only notification with content so far was a didChange with two
\* content changes for a URI that was not open: the document exists
C30_Witness ==
    \E u \in DocUris :
        /\ Len(pubs) = 1
        /\ pubs[1].uri = u
        /\ docs[u].open
        /\ docs[u].text # lastPayload[u]

\* the URI with one leading file:// removed
StripOnce(u) ==
    IF Len(u) >= 1 /\ u[1] = FilePrefix THEN SubSeq(u, 2, Len(u)) ELSE u

\* the paths that the calls of the last request passed to this operation
PathsPassed(op) ==
    UNION { { lastRpc.calls[k].paths[j] : j \in DOMAIN lastRpc.calls[k].paths } :
              k \in { n \in DOMAIN lastRpc.calls : lastRpc.calls[n].op = op } }

\* C21 (SpecEvents): the handlers of the workspace file events call the
\* scanner as follows.  didCreateFiles: IndexFiles with its URIs;
\* didDeleteFiles: RemoveFiles with its URIs; didRenameFiles: IndexFiles
\* with the new URIs, then RemoveFiles with the old URIs, also when IndexFiles
\* returned an error; didChangeWatchedFiles: the URIs of the Created and
\* Changed events go to IndexFiles, those of the Deleted events to
\* RemoveFiles, and no other call is made.  Every path is the URI with one
\* leading file:// removed.
C21_FileEventsTranslated ==
    LET q == lastRpc
        stripped == [k \in DOMAIN q.params |-> StripOnce(q.params[k])]
    IN /\ q.method = "workspace/didCreateFiles"
            => /\ Len(q.calls) = 1
               /\ q.calls[1].op = "IndexFiles"
               /\ q.calls[1].paths = stripped
       /\ q.method = "workspace/didDeleteFiles"
            => /\ Len(q.calls) = 1
               /\ q.calls[1].op = "RemoveFiles"
               /\ q.calls[1].paths = stripped
       /\ q.method = "workspace/didRenameFiles"
            => /\ Len(q.calls) = 2
               /\ q.calls[1].op = "IndexFiles"
               /\ q.calls[1].paths = [k \in DOMAIN q.params |-> StripOnce(q.params[k].new)]
               /\ q.calls[2].op = "RemoveFiles"
               /\ q.calls[2].paths = [k \in DOMAIN q.params |-> StripOnce(q.params[k].old)]
       /\ q.method = "workspace/didChangeWatchedFiles"
            => /\ \A k \in DOMAIN q.calls :
                    q.calls[k].op \in {"IndexFiles", "RemoveFiles"}
               /\ PathsPassed("IndexFiles")
                    = { StripOnce(q.params[k].uri) :
                          k \in { n \in DOMAIN q.params :
                                    q.params[n].type \in {FileCreated, FileChanged} } }
               /\ PathsPassed("RemoveFiles")
                    = { StripOnce(q.params[k].uri) :
                          k \in { n \in DOMAIN q.params :
                                    q.params[n].type = FileDeleted } }

\* a didRenameFiles whose IndexFiles returned an error was handled, with a
\* URI that carries the prefix twice
C21_Witness ==
    /\ lastRpc.method = "workspace/didRenameFiles"
    /\ lastRpc.calls[1].err
    /\ Len(lastRpc.calls) = 2
    /\ \E k \in DOMAIN lastRpc.params : Len(lastRpc.params[k].new) = 3

\* C22 (SpecRpc): the connection is closed by exit only.  A step that
\* closes the connection is the handling of exit, or the end of the process
\* in a panic; the handling of exit closes the connection, whether or not
\* shutdown preceded it and also when a command named exit or shutdown is
\* registered; the handling of shutdown leaves the connection open.
C22_ClosedOnlyByExit ==
    [][ /\ (connClosed' /\ ~connClosed)
            => (lastRpc'.by = "exit" \/ lastRpc'.ret.kind = "panic")
        /\ lastRpc'.method = "exit" => (connClosed' /\ lastRpc'.by = "exit")
        /\ lastRpc'.by = "shutdown" => ~connClosed' ]_vars

\* after shutdown a later request was dispatched on the open connection of
\* a server with a command named exit
C22_Witness ==
    /\ shutdowns > 0
    /\ ~connClosed
    /\ lastRpc.by \in {"command", "default"}
    /\ "exit" \in DOMAIN registry.commands

\* jsonrpc2.CodeInvalidParams, which no handler uses
CodeInvalidParams == "InvalidParams"

\* the last request was taken by a case of the switch that decodes params
\* and had params that are absent or do not decode
BadParamsHandled ==
    /\ lastRpc.method \in DecodingMethods
    /\ lastRpc.by = lastRpc.method
    /\ lastRpc.params \in {Absent, Undecodable}

\* C23 (SpecRpc): a request of a known method whose params are absent or
\* do not decode does not end the server, and if it is no notification it
\* is answered with an error response that carries the invalid-params code.
C23_BadParamsInvalidParams ==
    BadParamsHandled
        => /\ lastRpc.ret.kind # "panic"
           /\ ~connClosed
           /\ ~lastRpc.notif
                => /\ Response(lastRpc).kind = "error"
                   /\ Response(lastRpc).code = CodeInvalidParams

\* the last request carried the name of a registered command and was
\* handled by the function commandMap holds for it, with the raw params
ByItsCommand ==
    /\ lastRpc.by = "command"
    /\ Len(lastRpc.calls) = 1
    /\ lastRpc.calls[1].op = "command"
    /\ lastRpc.calls[1].fn = registry.commands[lastRpc.method]
    /\ lastRpc.calls[1].raw = lastRpc.params

\* C26 as stated (SpecRpc): a request whose method is the name of a
\* registered command is handled by that command's function, with the
\* request's params as they came, and by no built-in handler.
C26_CommandsDispatched ==
    lastRpc.method \in DOMAIN registry.commands => ByItsCommand

\* C26 amended (SpecRpc): the same for every registered name but exit; a
\* request with the method exit is handled by the built-in exit handler.
C26_CommandsButExitDispatched ==
    /\ (lastRpc.method \in DOMAIN registry.commands /\ lastRpc.method # "exit")
          => ByItsCommand
    /\ lastRpc.method = "exit" => lastRpc.by = "exit"

\* a command named like a built-in method took a request with params
C26_Witness ==
    /\ lastRpc.method = "initialize"
    /\ lastRpc.by = "command"
    /\ lastRpc.params # Absent

\* C27 (SpecRpc): a request with an ID for a method that is neither built
\* in nor a registered command is answered with a method-not-found error, a
\* notification for such a method gets no response, and in both cases
\* nothing of the server's state changes.
C27_UnknownMethod ==
    [][ lastRpc'.by = "default"
          => /\ IF lastRpc'.notif
                THEN Response(lastRpc').kind = "none"
                ELSE /\ Response(lastRpc').kind = "error"
                     /\ Response(lastRpc').code = CodeMethodNotFound
             /\ UNCHANGED << obsVars, gateVars, connClosed, runs, scanVars, closeVars,
                             eventVars, docVars, registry, rootPath >> ]_vars

\* occurrences of e in the list q
Count(q, e) == Cardinality({ n \in DOMAIN q : q[n] = e })

\* the list q holds every element of S once and nothing else
HoldsOnce(q, S) ==
    /\ \A e \in S : Count(q, e) = 1
    /\ \A n \in DOMAIN q : q[n] \in S

\* C28 (SpecInit): the triggerCharacters that initialize returns hold every
\* trigger character of every registered completion provider once and
\* nothing else, and the codeActionKinds hold every kind of every registered
\* code-action provider once and nothing else.
C28_CapabilitiesDeduplicated ==
    lastRpc.by = "initialize"
        => /\ HoldsOnce(lastRpc.ret.value.triggerCharacters,
                        Elements(registry.completion, "triggers"))
           /\ HoldsOnce(lastRpc.ret.value.codeActionKinds,
                        Elements(registry.codeAction, "kinds"))

\* initialize answered on a server whose providers repeat a trigger
\* character and a kind
C28_Witness ==
    /\ lastRpc.by = "initialize"
    /\ Len(registry.completion) = 2
    /\ Len(registry.codeAction) = 2
    /\ Len(lastRpc.ret.value.triggerCharacters) = 3
    /\ Len(lastRpc.ret.value.codeActionKinds) = 2

\* C29 (SpecInit): after initialize the root path is rootPath if that is
\* not empty; else rootUri with one leading file:// removed if that is not
\* empty; else the URI of the first workspace folder with one leading
\* file:// removed if there is a folder; else the working directory.
C29_RootPathPrecedence ==
    lastRpc.by = "initialize"
        => LET p == lastRpc.params[1]
           IN rootPath =
                IF p.rootPath # <<>> THEN p.rootPath
                ELSE IF p.rootUri # <<>> THEN StripOnce(p.rootUri)
                ELSE IF p.workspaceFolders # <<>>
                     THEN StripOnce(Head(p.workspaceFolders).uri)
                ELSE Cwd

\* initialize with a rootPath and a rootUri that carries the prefix twice
C29_Witness ==
    /\ lastRpc.by = "initialize"
    /\ lastRpc.params[1].rootPath # <<>>
    /\ Len(lastRpc.params[1].rootUri) = 3
    /\ Len(lastRpc.params[1].workspaceFolders) = 2
    /\ rootPath = lastRpc.params[1].rootPath

\* the last request was a completion, definition, code action or diagnostic
\* request
QueryMethods ==
    { "textDocument/completion", "textDocument/definition",
      "textDocument/codeAction", "textDocument/diagnostic" }

\* C24 (SpecQuery): a definition, code action or diagnostic request that
\* decodes returns a result, not an error, and does not end the server,
\* whether or not the document is open, has a tree, is matched by a provider
\* and, for a .php document, whether or not php.index is registered.
C24_UnfulfillableReturnsResult ==
    (lastRpc.by \in QueryMethods \ {"textDocument/completion"})
        => /\ lastRpc.ret.kind = "result"
           /\ Response(lastRpc).kind = "result"
           /\ ~connClosed

RECURSIVE JoinOuts(_, _)
\* the results of the calls from the n-th on that returned no error, one
\* after the other
JoinOuts(calls, n) ==
    IF n > Len(calls) THEN <<>>
    ELSE (IF calls[n].err THEN <<>> ELSE calls[n].out) \o JoinOuts(calls, n + 1)

\* the providers that the handler of this method runs through
ProvidersOf(m) ==
    CASE m = "textDocument/completion" -> registry.completion
      [] m = "textDocument/definition" -> registry.definition
      [] m = "textDocument/codeAction" -> registry.codeAction
      [] m = "textDocument/diagnostic" -> registry.diagnostics

\* C25 (SpecQuery): the list that a completion, definition, code action or
\* diagnostic request returns is the concatenation of the results of the
\* providers in the order of their registration, every provider asked once,
\* the result of a diagnostics provider that returned an error left out and
\* the providers after it still asked; the completion result carries
\* isIncomplete = false.  (A diagnostic request on a document that is not
\* open or has no tree asks no provider and returns the empty list.)  The
\* steps are those that handle such a request: they leave the documents and
\* the diagnostics goroutines as they are.
C25_ResultsInRegistrationOrder ==
    [][ (lastRpc'.by \in QueryMethods /\ lastRpc'.ret.kind = "result"
            /\ docVars' = docVars)
          => LET q == lastRpc'
                 u == q.params[1]
                 asked == q.by # "textDocument/diagnostic"
                            \/ (docs[u].open /\ docs[u].tree # NoTree)
                 n == IF asked THEN Len(ProvidersOf(q.by)) ELSE 0
             IN /\ Len(q.calls) = n
                /\ \A k \in 1..n : q.calls[k].fn = k
                /\ \A k \in 1..n :
                      q.calls[k].out = ProviderOut(ProvidersOf(q.by)[k], u)
                /\ q.ret.value.items = JoinOuts(q.calls, 1)
                /\ q.by = "textDocument/completion"
                      => q.ret.value.isIncomplete = FALSE ]_vars

\* a diagnostic request on an open document with a tree whose first
\* provider returned an error and whose second returned an item
C25_Witness ==
    /\ lastRpc.by = "textDocument/diagnostic"
    /\ Len(lastRpc.calls) = 2
    /\ lastRpc.calls[1].err
    /\ ~lastRpc.calls[2].err
    /\ lastRpc.ret.value.items = <<"d2">>

\* the step in which the worker of run r is through with file p
Visited(r, p) == <<r, p>> \in inFlight /\ <<r, p>> \notin inFlight'

\* the scan of run r has returned without an error
Finished(r) == runs[r].pc = "notifyDone" \/ runs[r].completed > 0

\* the step in which FileScanner.IndexAll of run r returns
Completes(r) == runs[r].pc = "scanning" /\ runs'[r].pc = "notifyDone"

C32_DeletedRemoved ==
    [][ \A r \in RunIds :
          Completes(r)
          => \A p \in Paths :
               disk[p] = NoHash
               => /\ hashes'[p] = NoHash
                  /\ \A i \in IndexerIds : p \notin indexed'[i] ]_vars

\* C33 (SpecScan): when the scan of an indexAll returns, the HashStore
\* holds the hash of the contents of a file exactly when the file was parsed
\* and dispatched with these contents.
C33_HashIffDispatched ==
    [][ \A r \in RunIds :
          Completes(r)
          => \A p \in Paths :
               disk[p] # NoHash
               => ( hashes'[p] = disk[p] <=> dispatched'[p] = disk[p] ) ]_vars

\* C34 (SpecScan): a file that was parsed reaches every matching indexer
\* also when one of them returns an error, the indexers that did not fail
\* hold it, its hash is recorded and the scan goes on with the other files;
\* a file that does not parse reaches no indexer and its hash is not
\* recorded, so that the next scan finds it changed again.
C34_FailureSemantics ==
    [][ \A r \in RunIds, p \in Paths :
          Visited(r, p)
          => /\ lastScan'.parsed
                => /\ \A i \in Matching(<<p>>) :
                        \E c \in lastScan'.calls :
                          c.indexer = i /\ c.op = "indexFile"
                   /\ \A c \in lastScan'.calls :
                        ~c.err => p \in indexed'[c.indexer]
                   /\ hashes'[p] = disk[p]
                   /\ runs'[r].pc = runs[r].pc
                   /\ runs'[r].todo = runs[r].todo \ {p}
             /\ (disk[p] # NoHash /\ ~Parses(disk[p]))
                => /\ lastScan'.calls = {}
                   /\ ~lastScan'.parsed
                   /\ hashes'[p] = hashes[p]
                   /\ hashes'[p] # disk[p] ]_vars

\* a.xml was parsed, php.index failed on it, xml.index holds it and its
\* hash is recorded; then b.php did not parse and has no hash of its
\* contents
C34_Witness ==
    /\ "a.xml" \in indexed["xml.index"]
    /\ "a.xml" \notin indexed["php.index"]
    /\ hashes["a.xml"] = disk["a.xml"]
    /\ lastScan.path = "b.php"
    /\ lastScan.calls = {}
    /\ ~lastScan.parsed
    /\ disk["b.php"] # NoHash
    /\ ~Parses(disk["b.php"])
    /\ hashes["b.php"] # disk["b.php"]

Contains(tree, n, off) == tree[n].start <= off /\ off <= tree[n].end

\* the parent of a node of a tree, NoNode for the root
ParentOf(tree, n) ==
    IF \E m \in 1..Len(tree) : \E i \in 1..Len(tree[m].kids) : tree[m].kids[i] = n
    THEN CHOOSE m \in 1..Len(tree) : \E i \in 1..Len(tree[m].kids) : tree[m].kids[i] = n
    ELSE NoNode

\* n is the first child of its parent, in document order, whose span
\* contains the offset
FirstContaining(tree, n, off) ==
    LET kids == tree[ParentOf(tree, n)].kids
    IN \A i \in 1..Len(kids) :
         kids[i] = n
         => /\ Contains(tree, n, off)
            /\ \A j \in 1..(i - 1) : ~Contains(tree, kids[j], off)

\* the ancestors of a node, the node included
RECURSIVE Ancestors(_, _)
Ancestors(tree, n) ==
    IF n = NoNode THEN {} ELSE {n} \cup Ancestors(tree, ParentOf(tree, n))

\* what the claim says of the answer q to a call made with the documents d
MostSpecific(q, d) ==
    LET has  == d[q.uri].open /\ d[q.uri].tree # NoTree
        tree == TreeOf(d[q.uri].text)
        off  == TargetOffset(LinesOf(d[q.uri].text), q.line, q.character)
    IN /\ ~q.ok => ~has
       /\ has => /\ q.ok
                 /\ q.node # NoNode
                 /\ q.descent <=> Contains(tree, 1, off)
                 /\ q.descent
                    => /\ Contains(tree, q.node, off)
                       /\ \A i \in 1..Len(tree[q.node].kids) :
                            ~Contains(tree, tree[q.node].kids[i], off)
                       /\ \A a \in Ancestors(tree, q.node) \ {1} :
                            FirstContaining(tree, a, off)

\* C36 (SpecNode): a node found by descent contains the offset of the
\* position (end inclusive), none of its children does, and every node on
\* the way from the root is the first child of its parent that contains the
\* offset; the fallback is used exactly when the root does not contain the
\* offset; and the call reports none only for a document that is not open
\* or has no tree.
C36_MostSpecificNode ==
    [][ nodeAt' # nodeAt => MostSpecific(nodeAt', docs) ]_vars

\* the position (0, 1) of the open document "x" is byte 1, where the
\* siblings 4 and 5 meet below node 2: the descent returned node 4
C36_Witness ==
    /\ nodeAt.uri \in DocUris
    /\ docs[nodeAt.uri].open
    /\ docs[nodeAt.uri].tree # NoTree
    /\ docs[nodeAt.uri].text = "x"
    /\ nodeAt.line = 0
    /\ nodeAt.character = 1
    /\ nodeAt.ok
    /\ nodeAt.descent
    /\ nodeAt.node = 4

\* C37 (SpecDocClose): after DocumentManager.Close has closed the parsers,
\* no didOpen and no didChange makes a parser parse a text.
C37_NoParseAfterClose ==
    [][ Len(trees') > Len(trees) => dmCloseCalls = 0 ]_vars

C39_IndexBeforeRemove ==
    lastRpc.method = "workspace/didChangeWatchedFiles"
    => /\ Len(lastRpc.calls) <= 2
       /\ \A j \in DOMAIN lastRpc.calls, k \in DOMAIN lastRpc.calls :
            (lastRpc.calls[j].op = "IndexFiles" /\ lastRpc.calls[k].op = "RemoveFiles")
            => j < k
       /\ \A j \in DOMAIN lastRpc.calls, k \in DOMAIN lastRpc.calls :
            lastRpc.calls[j].op = lastRpc.calls[k].op => j = k
       /\ \A p \in Paths :
            <<p>> \in PathsPassed("RemoveFiles")
            => /\ hashes[p] = NoHash
               /\ \A i \in Matching(<<p>>) : p \notin indexed[i]

\* a batch that names a.xml, which is on disk, as Deleted and then as
\* Created was handled: IndexFiles and RemoveFiles were called and a.xml
\* is removed
C39_Witness ==
    /\ lastRpc.method = "workspace/didChangeWatchedFiles"
    /\ lastRpc.params = << [uri |-> <<FilePrefix, "a.xml">>, type |-> FileDeleted],
                           [uri |-> <<FilePrefix, "a.xml">>, type |-> FileCreated] >>
    /\ Len(lastRpc.calls) = 2
    /\ disk["a.xml"] # NoHash
    /\ hashes["a.xml"] = NoHash
    /\ "a.xml" \notin indexed["xml.index"]

\* the locale pattern as the claim states it: 2 characters, or 5 characters
\* with '-' or '_' at index 2 (counted from 0)
MatchesPattern(s) == Len(s) = 2 \/ (Len(s) = 5 /\ (s[3] = "-" \/ s[3] = "_"))

\* s in dash form: the same characters, with a dash for every underscore
DashForm(s, r) ==
    /\ Len(r) = Len(s)
    /\ \A k \in DOMAIN s : r[k] = (IF s[k] = "_" THEN "-" ELSE s[k])

====
